---- MODULE Spec2Model ----
(***************************************************************************)
(* State-machine model of the CDP signers (Solana, EVM) and the Optimism   *)
(* price-params handler of the relayer.  One request runs at a time: it    *)
(* starts from "idle", suspends at each network call (.await) and ends in  *)
(* "done" with a result; Reset returns to "idle".                          *)
(***************************************************************************)
EXTENDS Integers, Sequences, FiniteSets, TLC

VARIABLES
    pc,      \* position of the running request: "idle", an await point, "done"
    op,      \* the operation that is running ("none" when idle)
    req,     \* the request's inputs
    calls,   \* remote calls issued by the request so far, in order
    local,   \* locals kept across await points (and the backend's answers)
    result   \* the value returned to the caller (NoResult until done)

vars == <<pc, op, req, calls, local, result>>

----------------------------------------------------------------------------
(* Bounds of the model *)

\* longest account-key list of a modelled Solana message / transaction
MaxKeys == 3
\* longest signature list of a modelled Solana transaction
MaxSigs == 2
\* width in bytes of the modelled U256 (the program's is 32 bytes wide)
UBytes == 2
\* longest decoded data payload, in bytes, of a transaction whose compressed
\* size is computed on its own
MaxData == 4

----------------------------------------------------------------------------
(* Result values *)

NoResult == [ok |-> FALSE, kind |-> "none", msg |-> "", detail |-> <<>>]
NoDetail == <<>>
Ok(v) == [ok |-> TRUE, val |-> v]
Err(kind, msg, detail) == [ok |-> FALSE, kind |-> kind, msg |-> msg, detail |-> detail]

\* a mapping that reports the backend's error as a local signing error
SignerError_CdpError_as_SigningError(e) ==
    [ok |-> FALSE, kind |-> "SigningError", msg |-> "CDP signing failed: ", detail |-> e.msg]

\* .map_err(SignerError::CdpError): the backend's error is wrapped unchanged
SignerError_CdpError(e) == Err("CdpError", "", e)
SignerError_SigningError(msg, detail) == Err("SigningError", msg, detail)

\* errors the injected CdpServiceTrait may return
CdpErrors ==
    { [kind |-> "SigningError", msg |-> "Mock signing error"],
      [kind |-> "ConfigError", msg |-> "Invalid public key"] }

----------------------------------------------------------------------------
(* Sequence helpers *)

SeqsUpTo(S, n) == UNION { [1..k -> S] : k \in 0..n }

\* a search that keeps the last match instead of stopping at the first
position_last(s, x) ==
    IF \E i \in 1..Len(s) : s[i] = x
    THEN CHOOSE i \in 1..Len(s) : s[i] = x /\ \A j \in (i+1)..Len(s) : s[j] # x
    ELSE 0

\* Iterator::position: first index whose element equals x, 0 for None
position(s, x) ==
    IF \E i \in 1..Len(s) : s[i] = x
    THEN CHOOSE i \in 1..Len(s) : s[i] = x /\ \A j \in 1..(i-1) : s[j] # x
    ELSE 0

----------------------------------------------------------------------------
(* Solana wire formats                                                     *)
(* A Message is modelled by its header's num_required_signatures and its   *)
(* account_keys; a Transaction by its signatures and its message.  The     *)
(* bincode layout is: length-prefixed signatures, header, length-prefixed  *)
(* account keys.                                                           *)

Pubkeys == {1, 2, 3}
Signatures == {11, 12}
\* Signature::default(), the placeholder of an unsigned transaction
DefaultSignature == 10

bincode_serialize_message(m) ==
    <<m.num_required_signatures, Len(m.account_keys)>> \o m.account_keys

\* bincode::deserialize::<Message>: Ok(message) or Err
bincode_deserialize_message(bytes) ==
    IF Len(bytes) >= 2 /\ Len(bytes) >= 2 + bytes[2]
    THEN Ok([num_required_signatures |-> bytes[1],
             account_keys |-> SubSeq(bytes, 3, 2 + bytes[2])])
    ELSE Err("bincode", "io error: unexpected end of file", NoDetail)

bincode_serialize_transaction(tx) ==
    <<Len(tx.signatures)>> \o tx.signatures \o bincode_serialize_message(tx.message)

\* bincode::deserialize::<Transaction>: Ok(transaction) or Err
bincode_deserialize_transaction(bytes) ==
    IF Len(bytes) >= 1 /\ Len(bytes) >= 1 + bytes[1]
    THEN LET m == bincode_deserialize_message(SubSeq(bytes, 2 + bytes[1], Len(bytes)))
         IN  IF m.ok
             THEN Ok([signatures |-> SubSeq(bytes, 2, 1 + bytes[1]),
                      message |-> m.val])
             ELSE m
    ELSE Err("bincode", "io error: unexpected end of file", NoDetail)

\* base64 (STANDARD): every byte is mapped into the transport alphabet
Base64Shift == 1000
base64_encode(bytes) == [i \in 1..Len(bytes) |-> bytes[i] + Base64Shift]
base64_decode(str) ==
    IF \A i \in 1..Len(str) : str[i] >= Base64Shift
    THEN Ok([i \in 1..Len(str) |-> str[i] - Base64Shift])
    ELSE Err("base64", "Invalid byte", NoDetail)

\* Transaction::new_unsigned: default signatures, one per required signer
new_unsigned(message) ==
    [signatures |-> [i \in 1..message.num_required_signatures |-> DefaultSignature],
     message |-> message]

\* EncodedSerializedTransaction::try_from(&Transaction): base64 of bincode
EncodedSerializedTransaction_try_from(tx) ==
    Ok(base64_encode(bincode_serialize_transaction(tx)))

\* TryInto<Transaction> for EncodedSerializedTransaction
EncodedSerializedTransaction_try_into(encoded) ==
    LET raw == base64_decode(encoded)
    IN  IF raw.ok THEN bincode_deserialize_transaction(raw.val) ELSE raw

\* Address values returned by account_address, and Pubkey::from_str on the
\* Solana variant's string
Address_Solana(s) == [variant |-> "Solana", addr |-> s]
Address_Evm(b) == [variant |-> "Evm", addr |-> b]

Pubkey_from_str(addr) ==
    CASE addr = "Key1" -> Ok(1)
      [] addr = "Key2" -> Ok(2)
      [] addr = "Key3" -> Ok(3)
      [] OTHER -> Err("ParsePubkeyError", "Invalid Base58 string", NoDetail)

Pubkey_to_string(k) ==
    CASE k = 1 -> "Key1" [] k = 2 -> "Key2" [] k = 3 -> "Key3"

----------------------------------------------------------------------------
(* Inputs of the Solana signer *)

Messages ==
    { [num_required_signatures |-> 1, account_keys |-> ks] :
        ks \in {<<1>>, <<1, 2>>, <<2, 1>>} }

\* message bytes handed to sign: serialized messages and undecodable bytes
MessageInputs ==
    { bincode_serialize_message(m) : m \in Messages } \cup {<<>>, <<1, 3, 1>>}

\* transactions the backend may return: any signature list, any key list
BackendTransactions ==
    { [signatures |-> ss,
       message |-> [num_required_signatures |-> Len(ss), account_keys |-> ks]] :
        ss \in SeqsUpTo(Signatures, MaxSigs), ks \in SeqsUpTo(Pubkeys, MaxKeys) }

\* Ok(bytes) / Err(e) answers of sign_solana_transaction
SignSolanaTransactionResults ==
    { Ok(bincode_serialize_transaction(tx)) : tx \in BackendTransactions }
    \cup { Ok(<<>>), Ok(<<2, 11>>), Ok(<<1, 11, 1, 2, 1>>) }
    \cup { [ok |-> FALSE, err |-> e] : e \in CdpErrors }

\* Ok(address) / Err(e) answers of account_address
AccountAddressResults ==
    { Ok(Address_Solana(Pubkey_to_string(k))) : k \in Pubkeys }
    \cup { Ok(Address_Solana("not-base58")), Ok(Address_Evm(<<200, 52>>)) }
    \cup { [ok |-> FALSE, err |-> e] : e \in CdpErrors }

----------------------------------------------------------------------------
(* Solana CdpSigner::sign *)

\* an encode step that signs an empty message when the bytes do not deserialize
Solana_sign_encode_lenient(message) ==
    LET solana_message == bincode_deserialize_message(message)
        transaction ==
            new_unsigned(IF solana_message.ok
                         THEN solana_message.val
                         ELSE [num_required_signatures |-> 0, account_keys |-> <<>>])
        encoded_tx == EncodedSerializedTransaction_try_from(transaction)
    IN  IF ~encoded_tx.ok
        THEN SignerError_SigningError("Failed to encode transaction: ", encoded_tx.msg)
        ELSE encoded_tx

\* sign, up to the remote call: deserialize the message, build the unsigned
\* transaction and encode it
Solana_sign_encode(message) ==
    LET solana_message == bincode_deserialize_message(message)
    IN  IF ~solana_message.ok
        THEN SignerError_SigningError("Failed to deserialize message: ", solana_message.msg)
        ELSE LET transaction == new_unsigned(solana_message.val)
                 encoded_tx == EncodedSerializedTransaction_try_from(transaction)
             IN  IF ~encoded_tx.ok
                 THEN SignerError_SigningError("Failed to encode transaction: ", encoded_tx.msg)
                 ELSE encoded_tx

\* a decode step that takes bytes that are no transaction for a transaction
\* without signatures
Solana_sign_decode_lenient(signed_tx_bytes) ==
    LET signed_tx_encoded == base64_encode(signed_tx_bytes)
        signed_transaction == EncodedSerializedTransaction_try_into(signed_tx_encoded)
    IN  IF ~signed_transaction.ok
        THEN Ok(new_unsigned([num_required_signatures |-> 0, account_keys |-> <<>>]))
        ELSE signed_transaction

\* sign, after the remote call returned: base64-encode the raw bytes and
\* parse them back into a Transaction
Solana_sign_decode(signed_tx_bytes) ==
    LET signed_tx_encoded == base64_encode(signed_tx_bytes)
        signed_transaction == EncodedSerializedTransaction_try_into(signed_tx_encoded)
    IN  IF ~signed_transaction.ok
        THEN SignerError_SigningError("Failed to decode signed transaction: ",
                                      signed_transaction.msg)
        ELSE signed_transaction

\* a resolve step that falls back to the first signature when the signer's
\* pubkey is not among the account keys
Solana_sign_resolve_fallback(signed_transaction, cdp_address) ==
    IF cdp_address.variant # "Solana"
    THEN SignerError_SigningError("CDP address is not a Solana address", NoDetail)
    ELSE LET cdp_pubkey == Pubkey_from_str(cdp_address.addr)
         IN  IF ~cdp_pubkey.ok
             THEN SignerError_SigningError("Invalid CDP pubkey: ", cdp_pubkey.msg)
             ELSE LET found ==
                          position(signed_transaction.message.account_keys, cdp_pubkey.val)
                      signer_index == IF found = 0 THEN 1 ELSE found
                  IN  IF signer_index - 1 >= Len(signed_transaction.signatures)
                      THEN SignerError_SigningError("Signature index out of bounds", NoDetail)
                      ELSE Ok(signed_transaction.signatures[signer_index])

\* a resolve step that parses whatever address it got as a pubkey, without
\* looking at the variant first
Solana_sign_resolve_any_variant(signed_transaction, cdp_address) ==
    LET cdp_pubkey == IF cdp_address.variant = "Solana"
                      THEN Pubkey_from_str(cdp_address.addr)
                      ELSE Err("ParsePubkeyError", "Invalid Base58 string", NoDetail)
    IN  IF ~cdp_pubkey.ok
        THEN SignerError_SigningError("Invalid CDP pubkey: ", cdp_pubkey.msg)
        ELSE LET signer_index ==
                     position(signed_transaction.message.account_keys, cdp_pubkey.val)
             IN  IF signer_index = 0
                 THEN SignerError_SigningError(
                          "CDP pubkey not found in transaction signers", NoDetail)
                 ELSE IF signer_index - 1 >= Len(signed_transaction.signatures)
                 THEN SignerError_SigningError("Signature index out of bounds", NoDetail)
                 ELSE Ok(signed_transaction.signatures[signer_index])

\* sign, after account_address returned Ok(cdp_address): the signer's pubkey,
\* its index among the account keys, and the signature at that index
Solana_sign_resolve(signed_transaction, cdp_address) ==
    IF cdp_address.variant # "Solana"
    THEN SignerError_SigningError("CDP address is not a Solana address", NoDetail)
    ELSE LET cdp_pubkey == Pubkey_from_str(cdp_address.addr)
         IN  IF ~cdp_pubkey.ok
             THEN SignerError_SigningError("Invalid CDP pubkey: ", cdp_pubkey.msg)
             ELSE LET signer_index ==
                          position(signed_transaction.message.account_keys, cdp_pubkey.val)
                  IN  IF signer_index = 0
                      THEN SignerError_SigningError(
                               "CDP pubkey not found in transaction signers", NoDetail)
                      ELSE IF signer_index - 1 >= Len(signed_transaction.signatures)
                      THEN SignerError_SigningError("Signature index out of bounds", NoDetail)
                      ELSE Ok(signed_transaction.signatures[signer_index])

SolanaSign_Begin ==
    /\ pc = "idle"
    /\ \E message \in MessageInputs :
        LET encoded_tx == Solana_sign_encode(message)
        IN  /\ op' = "solana_sign"
            /\ req' = [message |-> message]
            /\ local' = [stage |-> 0]
            /\ IF encoded_tx.ok
               THEN /\ calls' = <<[fn |-> "sign_solana_transaction", arg |-> encoded_tx.val]>>
                    /\ pc' = "solana_sign_await_sign"
                    /\ result' = NoResult
               ELSE /\ calls' = <<>>
                    /\ pc' = "done"
                    /\ result' = encoded_tx

\* a step that refuses a returned transaction whose message is not the one
\* that was submitted
SolanaSign_SignReturns_checked ==
    /\ pc = "solana_sign_await_sign"
    /\ \E r \in SignSolanaTransactionResults :
        IF ~r.ok
        THEN /\ result' = SignerError_CdpError(r.err)
             /\ pc' = "done"
             /\ local' = [stage |-> 1, sign_result |-> r]
             /\ UNCHANGED calls
        ELSE LET signed_transaction == Solana_sign_decode(r.val)
             IN  IF ~signed_transaction.ok
                 THEN /\ result' = signed_transaction
                      /\ pc' = "done"
                      /\ local' = [stage |-> 1, sign_result |-> r]
                      /\ UNCHANGED calls
                 ELSE IF signed_transaction.val.message
                             # bincode_deserialize_message(req.message).val
                 THEN /\ result' = SignerError_SigningError(
                                       "Signed transaction does not match the message",
                                       NoDetail)
                      /\ pc' = "done"
                      /\ local' = [stage |-> 1, sign_result |-> r]
                      /\ UNCHANGED calls
                 ELSE /\ result' = NoResult
                      /\ pc' = "solana_sign_await_address"
                      /\ local' = [stage |-> 2, sign_result |-> r,
                                   signed_transaction |-> signed_transaction.val]
                      /\ calls' = Append(calls, [fn |-> "account_address", arg |-> <<>>])
    /\ UNCHANGED <<op, req>>

\* a step that looks the address up as soon as the remote call returned bytes,
\* before it knows whether they decode
SolanaSign_SignReturns_eager_lookup ==
    /\ pc = "solana_sign_await_sign"
    /\ \E r \in SignSolanaTransactionResults :
        IF ~r.ok
        THEN /\ result' = SignerError_CdpError(r.err)
             /\ pc' = "done"
             /\ local' = [stage |-> 1, sign_result |-> r]
             /\ UNCHANGED calls
        ELSE LET signed_transaction == Solana_sign_decode(r.val)
             IN  /\ result' = NoResult
                 /\ pc' = "solana_sign_await_address"
                 /\ local' = [stage |-> 2, sign_result |-> r,
                              signed_transaction |->
                                  IF signed_transaction.ok
                                  THEN signed_transaction.val
                                  ELSE new_unsigned([num_required_signatures |-> 0,
                                                     account_keys |-> <<>>])]
                 /\ calls' = Append(calls, [fn |-> "account_address", arg |-> <<>>])
    /\ UNCHANGED <<op, req>>

SolanaSign_SignReturns ==
    /\ pc = "solana_sign_await_sign"
    /\ \E r \in SignSolanaTransactionResults :
        IF ~r.ok
        THEN /\ result' = SignerError_CdpError(r.err)
             /\ pc' = "done"
             /\ local' = [stage |-> 1, sign_result |-> r]
             /\ UNCHANGED calls
        ELSE LET signed_transaction == Solana_sign_decode(r.val)
             IN  IF ~signed_transaction.ok
                 THEN /\ result' = signed_transaction
                      /\ pc' = "done"
                      /\ local' = [stage |-> 1, sign_result |-> r]
                      /\ UNCHANGED calls
                 ELSE /\ result' = NoResult
                      /\ pc' = "solana_sign_await_address"
                      /\ local' = [stage |-> 2, sign_result |-> r,
                                   signed_transaction |-> signed_transaction.val]
                      /\ calls' = Append(calls, [fn |-> "account_address", arg |-> <<>>])
    /\ UNCHANGED <<op, req>>

SolanaSign_AddressReturns ==
    /\ pc = "solana_sign_await_address"
    /\ \E a \in AccountAddressResults :
        /\ local' = [stage |-> 3, sign_result |-> local.sign_result,
                     signed_transaction |-> local.signed_transaction,
                     address_result |-> a]
        /\ result' = IF ~a.ok
                     THEN SignerError_CdpError(a.err)
                     ELSE Solana_sign_resolve(local.signed_transaction, a.val)
    /\ pc' = "done"
    /\ UNCHANGED <<op, req, calls>>

----------------------------------------------------------------------------
(* Solana CdpSigner::sign_transaction *)

\* transactions handed to sign_transaction: encoded unsigned transactions,
\* strings that are no encoding of a transaction, and an EVM transaction
SolanaTransactionInputs ==
    { [variant |-> "Solana", transaction |-> t] :
        t \in { base64_encode(bincode_serialize_transaction(new_unsigned(m))) :
                  m \in Messages } \cup {<<>>, <<7>>} }
    \cup { [variant |-> "Evm", nonce |-> 0] }

\* SignTransactionResponse::Solana(signed_transaction)
SignTransactionResponse_Solana(bytes) == [variant |-> "Solana", signature |-> bytes]

\* sign_transaction, up to the remote call: the encoded transaction string
Solana_sign_transaction_request(transaction) ==
    IF transaction.variant # "Solana"
    THEN Err("NotSupported", "transaction is not a Solana transaction", NoDetail)
    ELSE Ok(transaction.transaction)

\* a response that hands back the bytes in their base64 transport form
Solana_sign_transaction_response_encoded(r) ==
    IF ~r.ok
    THEN SignerError_CdpError(r.err)
    ELSE Ok(SignTransactionResponse_Solana(base64_encode(r.val)))

\* sign_transaction, after the remote call returned
Solana_sign_transaction_response(r) ==
    IF ~r.ok
    THEN SignerError_CdpError(r.err)
    ELSE Ok(SignTransactionResponse_Solana(r.val))

SolanaSignTransaction_Begin ==
    /\ pc = "idle"
    /\ \E transaction \in SolanaTransactionInputs :
        LET solana_data == Solana_sign_transaction_request(transaction)
        IN  /\ req' = [transaction |-> transaction]
            /\ IF solana_data.ok
               THEN /\ calls' = <<[fn |-> "sign_solana_transaction",
                                   arg |-> solana_data.val]>>
                    /\ pc' = "solana_sign_transaction_await"
                    /\ result' = NoResult
               ELSE /\ calls' = <<>>
                    /\ pc' = "done"
                    /\ result' = solana_data
    /\ op' = "solana_sign_transaction"
    /\ local' = [stage |-> 0]

SolanaSignTransaction_SignReturns ==
    /\ pc = "solana_sign_transaction_await"
    /\ \E r \in SignSolanaTransactionResults :
        /\ local' = [stage |-> 1, sign_result |-> r]
        /\ result' = Solana_sign_transaction_response(r)
    /\ pc' = "done"
    /\ UNCHANGED <<op, req, calls>>

----------------------------------------------------------------------------
(* EVM wire formats                                                        *)
(* A signed transaction is modelled as <<type, payload, v, r, s>>: the     *)
(* EIP-2718 type byte (2 for EIP-1559; a legacy transaction starts with    *)
(* its RLP list header instead), the unsigned fields, and the signature.   *)

Eip1559TxType == 2
LegacyRlpListHeader == 248
RlpListOffset == 192

None == [some |-> FALSE]
Some(v) == [some |-> TRUE, v |-> v]

HexDigits == <<"0", "1", "2", "3", "4", "5", "6", "7",
               "8", "9", "a", "b", "c", "d", "e", "f">>

\* hex::encode: two lower-case digits per byte, no prefix
hex_encode(bytes) ==
    [i \in 1..(2 * Len(bytes)) |->
        IF i % 2 = 1
        THEN HexDigits[(bytes[(i + 1) \div 2] \div 16) + 1]
        ELSE HexDigits[(bytes[i \div 2] % 16) + 1]]

\* SignableTransaction::encoded_for_signing of TxEip1559 / TxLegacy
TxEip1559_encoded_for_signing(tx) == <<Eip1559TxType, tx.nonce>>
TxLegacy_encoded_for_signing(tx) == <<LegacyRlpListHeader, tx.nonce>>

\* Signed::<TxEip1559>::eip2718_decode: type byte 2, then the fields and a
\* y-parity of 0 or 1
Signed_TxEip1559_eip2718_decode(bytes) ==
    IF Len(bytes) = 0
    THEN Err("Eip2718Error", "input too short", NoDetail)
    ELSE IF bytes[1] # Eip1559TxType
    THEN Err("Eip2718Error", "unexpected tx type", NoDetail)
    ELSE IF Len(bytes) # 5
    THEN Err("Eip2718Error", "input too short", NoDetail)
    ELSE IF bytes[3] \notin {0, 1}
    THEN Err("Eip2718Error", "invalid parity", NoDetail)
    ELSE Ok([ty |-> "eip1559", payload |-> bytes[2],
             signature |-> [y_parity |-> bytes[3], r |-> bytes[4], s |-> bytes[5]]])

\* Signed::<TxLegacy>::eip2718_decode: an RLP list whose v is 27/28 or the
\* EIP-155 value 35 + 2 * chain_id + y_parity
Signed_TxLegacy_eip2718_decode(bytes) ==
    IF Len(bytes) = 0
    THEN Err("Eip2718Error", "input too short", NoDetail)
    ELSE IF bytes[1] < RlpListOffset
    THEN Err("Eip2718Error", "unexpected string", NoDetail)
    ELSE IF Len(bytes) # 5
    THEN Err("Eip2718Error", "input too short", NoDetail)
    ELSE IF bytes[3] \notin {27, 28} /\ bytes[3] < 35
    THEN Err("Eip2718Error", "invalid parity", NoDetail)
    ELSE Ok([ty |-> "legacy", payload |-> bytes[2],
             signature |-> [y_parity |-> IF bytes[3] \in {27, 28}
                                         THEN bytes[3] - 27
                                         ELSE (bytes[3] - 35) % 2,
                            r |-> bytes[4], s |-> bytes[5]]])

\* Signature::as_bytes: r (32 bytes, big-endian), s (32 bytes), 27 + y_parity
as_bytes(sig) ==
    [i \in 1..65 |->
        IF i = 32 THEN sig.r
        ELSE IF i = 64 THEN sig.s
        ELSE IF i = 65 THEN 27 + sig.y_parity
        ELSE 0]

\* Signed::hash: the hash of the signed encoding
tx_hash(signed_tx) ==
    <<"keccak256", signed_tx.ty, signed_tx.payload,
      signed_tx.signature.y_parity, signed_tx.signature.r, signed_tx.signature.s>>

\* EvmTransactionDataSignature::from(&[u8; 65])
EvmTransactionDataSignature_from(bytes) ==
    [r |-> hex_encode(SubSeq(bytes, 1, 32)),
     s |-> hex_encode(SubSeq(bytes, 33, 64)),
     v |-> bytes[65],
     sig |-> hex_encode(bytes)]

\* EvmTransactionData::is_eip1559
is_eip1559(evm_data) == evm_data.max_fee_per_gas.some

----------------------------------------------------------------------------
(* Inputs of the EVM signer *)

EvmTransactionInputs ==
    { [variant |-> "Evm", nonce |-> 0, well_formed |-> wf,
       gas_price |-> IF e THEN None ELSE Some(20),
       max_fee_per_gas |-> IF e THEN Some(1) ELSE None,
       max_priority_fee_per_gas |-> IF e THEN Some(1) ELSE None] :
        e \in BOOLEAN, wf \in BOOLEAN }
    \cup { [variant |-> "Solana", transaction |-> <<1001>>] }

\* Ok(bytes) / Err(e) answers of sign_evm_transaction
SignEvmTransactionResults ==
    { Ok(<<Eip1559TxType, 0, yp, 5, s>>) : yp \in {0, 1}, s \in {6, 7} }
    \cup { Ok(<<LegacyRlpListHeader, 0, v, 5, s>>) : v \in {27, 28, 37, 38}, s \in {6, 7} }
    \cup { Ok(<<>>), Ok(<<Eip1559TxType, 0>>), Ok(<<Eip1559TxType, 0, 27, 5, 6>>),
           Ok(<<LegacyRlpListHeader, 0, 1, 5, 6>>), Ok(<<3, 0, 0, 5, 6>>) }
    \cup { [ok |-> FALSE, err |-> e] : e \in CdpErrors }

\* a signature of len bytes: r bytes rb, s bytes sb, then v, then padding
SignatureBytes(rb, sb, v, len) ==
    [i \in 1..len |->
        IF i <= 32 THEN rb ELSE IF i <= 64 THEN sb ELSE IF i = 65 THEN v ELSE 0]

\* Ok(bytes) / Err(e) answers of sign_evm_message
SignEvmMessageResults ==
    { Ok(SignatureBytes(rb, 2, v, len)) :
        rb \in {1, 171}, v \in {0, 1, 27, 28, 255}, len \in {0, 64, 65, 66} }
    \cup { [ok |-> FALSE, err |-> e] : e \in CdpErrors }

SignDataRequests == { [message |-> m] : m \in {"Test message", ""} }

----------------------------------------------------------------------------
(* EVM CdpSigner::sign_transaction *)

\* sign_transaction, up to the remote call: the unsigned bytes and the
\* transaction type they were built for
Evm_sign_transaction_encode(transaction) ==
    IF transaction.variant # "Evm"
    THEN Err("NotSupported", "transaction is not an EVM transaction", NoDetail)
    ELSE IF ~transaction.well_formed
    THEN Err("ConversionError", "invalid transaction data", NoDetail)
    ELSE IF is_eip1559(transaction)
    THEN Ok([unsigned_tx_bytes |-> TxEip1559_encoded_for_signing(transaction),
             is_eip1559 |-> TRUE])
    ELSE Ok([unsigned_tx_bytes |-> TxLegacy_encoded_for_signing(transaction),
             is_eip1559 |-> FALSE])

\* an adjustment that leaves the recovery id as decoded
adjust_v_skipped(sig_bytes) == sig_bytes

\* the EIP-1559 adjustment of the recovery id (27/28 -> 0/1)
adjust_v(sig_bytes) ==
    IF sig_bytes[65] = 27 THEN [sig_bytes EXCEPT ![65] = 0]
    ELSE IF sig_bytes[65] = 28 THEN [sig_bytes EXCEPT ![65] = 1]
    ELSE sig_bytes

\* a decode step that tries the other transaction type when the first fails
Evm_sign_transaction_decode_fallback(signed_bytes, eip1559) ==
    LET first == IF eip1559
                 THEN Signed_TxEip1559_eip2718_decode(signed_bytes)
                 ELSE Signed_TxLegacy_eip2718_decode(signed_bytes)
        second == IF eip1559
                  THEN Signed_TxLegacy_eip2718_decode(signed_bytes)
                  ELSE Signed_TxEip1559_eip2718_decode(signed_bytes)
        signed_tx == IF first.ok THEN first ELSE second
    IN  IF ~signed_tx.ok
        THEN SignerError_SigningError("Failed to decode signed transaction: ", first.msg)
        ELSE Ok([variant |-> "Evm",
                 hash |-> tx_hash(signed_tx.val),
                 signature |-> EvmTransactionDataSignature_from(
                                   IF signed_tx.val.ty = "eip1559"
                                   THEN adjust_v(as_bytes(signed_tx.val.signature))
                                   ELSE as_bytes(signed_tx.val.signature)),
                 raw |-> signed_bytes])

\* sign_transaction, after the remote call returned Ok(signed_bytes)
Evm_sign_transaction_decode(signed_bytes, eip1559) ==
    IF eip1559
    THEN LET signed_tx == Signed_TxEip1559_eip2718_decode(signed_bytes)
         IN  IF ~signed_tx.ok
             THEN SignerError_SigningError("Failed to decode signed transaction: ",
                                           signed_tx.msg)
             ELSE Ok([variant |-> "Evm",
                      hash |-> tx_hash(signed_tx.val),
                      signature |-> EvmTransactionDataSignature_from(
                                        adjust_v(as_bytes(signed_tx.val.signature))),
                      raw |-> signed_bytes])
    ELSE LET signed_tx == Signed_TxLegacy_eip2718_decode(signed_bytes)
         IN  IF ~signed_tx.ok
             THEN SignerError_SigningError("Failed to decode signed transaction: ",
                                           signed_tx.msg)
             ELSE Ok([variant |-> "Evm",
                      hash |-> tx_hash(signed_tx.val),
                      signature |-> EvmTransactionDataSignature_from(
                                        as_bytes(signed_tx.val.signature)),
                      raw |-> signed_bytes])

EvmSignTransaction_Begin ==
    /\ pc = "idle"
    /\ \E transaction \in EvmTransactionInputs :
        LET enc == Evm_sign_transaction_encode(transaction)
        IN  /\ op' = "evm_sign_transaction"
            /\ req' = [transaction |-> transaction]
            /\ IF enc.ok
               THEN /\ calls' = <<[fn |-> "sign_evm_transaction",
                                   arg |-> enc.val.unsigned_tx_bytes]>>
                    /\ local' = [stage |-> 0, is_eip1559 |-> enc.val.is_eip1559]
                    /\ pc' = "evm_sign_transaction_await"
                    /\ result' = NoResult
               ELSE /\ calls' = <<>>
                    /\ local' = [stage |-> 0]
                    /\ pc' = "done"
                    /\ result' = enc

EvmSignTransaction_SignReturns ==
    /\ pc = "evm_sign_transaction_await"
    /\ \E r \in SignEvmTransactionResults :
        /\ local' = [stage |-> 1, is_eip1559 |-> local.is_eip1559, sign_result |-> r]
        /\ result' = IF ~r.ok
                     THEN SignerError_CdpError(r.err)
                     ELSE Evm_sign_transaction_decode(r.val, local.is_eip1559)
    /\ pc' = "done"
    /\ UNCHANGED <<op, req, calls>>

----------------------------------------------------------------------------
(* EVM CdpSigner::sign_data *)

\* a response that applies the EIP-1559 adjustment (27/28 -> 0/1) to v
Evm_sign_data_response_adjusted(signature_bytes) ==
    IF Len(signature_bytes) # 65
    THEN SignerError_SigningError(
             "Invalid signature length from CDP: expected 65 bytes, got ",
             Len(signature_bytes))
    ELSE Ok([variant |-> "Evm",
             r |-> hex_encode(SubSeq(signature_bytes, 1, 32)),
             s |-> hex_encode(SubSeq(signature_bytes, 33, 64)),
             v |-> adjust_v(signature_bytes)[65],
             sig |-> hex_encode(signature_bytes)])

\* a length check that only rejects signatures shorter than 65 bytes
Evm_sign_data_response_min_len(signature_bytes) ==
    IF Len(signature_bytes) < 65
    THEN SignerError_SigningError(
             "Invalid signature length from CDP: expected 65 bytes, got ",
             Len(signature_bytes))
    ELSE Ok([variant |-> "Evm",
             r |-> hex_encode(SubSeq(signature_bytes, 1, 32)),
             s |-> hex_encode(SubSeq(signature_bytes, 33, 64)),
             v |-> signature_bytes[65],
             sig |-> hex_encode(signature_bytes)])

\* a response whose sig carries the 0x prefix
Evm_sign_data_response_prefixed(signature_bytes) ==
    IF Len(signature_bytes) # 65
    THEN SignerError_SigningError(
             "Invalid signature length from CDP: expected 65 bytes, got ",
             Len(signature_bytes))
    ELSE Ok([variant |-> "Evm",
             r |-> hex_encode(SubSeq(signature_bytes, 1, 32)),
             s |-> hex_encode(SubSeq(signature_bytes, 33, 64)),
             v |-> signature_bytes[65],
             sig |-> <<"0", "x">> \o hex_encode(signature_bytes)])

\* sign_data, after the remote call returned Ok(signature_bytes)
Evm_sign_data_response(signature_bytes) ==
    IF Len(signature_bytes) # 65
    THEN SignerError_SigningError(
             "Invalid signature length from CDP: expected 65 bytes, got ",
             Len(signature_bytes))
    ELSE Ok([variant |-> "Evm",
             r |-> hex_encode(SubSeq(signature_bytes, 1, 32)),
             s |-> hex_encode(SubSeq(signature_bytes, 33, 64)),
             v |-> signature_bytes[65],
             sig |-> hex_encode(signature_bytes)])

EvmSignData_Begin ==
    /\ pc = "idle"
    /\ \E request \in SignDataRequests :
        /\ req' = request
        /\ calls' = <<[fn |-> "sign_evm_message", arg |-> request.message]>>
    /\ op' = "evm_sign_data"
    /\ local' = [stage |-> 0]
    /\ pc' = "evm_sign_data_await"
    /\ result' = NoResult

EvmSignData_SignReturns ==
    /\ pc = "evm_sign_data_await"
    /\ \E r \in SignEvmMessageResults :
        /\ local' = [stage |-> 1, sign_result |-> r]
        /\ result' = IF ~r.ok
                     THEN SignerError_CdpError(r.err)
                     ELSE Evm_sign_data_response(r.val)
    /\ pc' = "done"
    /\ UNCHANGED <<op, req, calls>>

----------------------------------------------------------------------------
(* EVM CdpSigner::sign_typed_data *)

SignTypedDataRequests ==
    { [domain_separator |-> d, hash_struct_message |-> h] :
        d \in {"test-domain", ""}, h \in {"test-struct", ""} }

\* a sign_typed_data that signs the struct hash as a message when it has one
Evm_sign_typed_data_as_message(typed_data) ==
    IF typed_data.hash_struct_message # ""
    THEN [calls |-> <<[fn |-> "sign_evm_message", arg |-> typed_data.hash_struct_message]>>,
          result |-> Ok([variant |-> "Evm", sig |-> <<>>])]
    ELSE [calls |-> <<>>,
          result |-> Err("NotImplemented",
                         "EIP-712 typed data signing not yet implemented for CDP", NoDetail)]

\* sign_typed_data: the calls it makes and the result it returns
Evm_sign_typed_data(typed_data) ==
    [calls |-> <<>>,
     result |-> Err("NotImplemented",
                    "EIP-712 typed data signing not yet implemented for CDP", NoDetail)]

EvmSignTypedData ==
    /\ pc = "idle"
    /\ \E typed_data \in SignTypedDataRequests :
        /\ req' = [typed_data |-> typed_data]
        /\ calls' = Evm_sign_typed_data(typed_data).calls
        /\ result' = Evm_sign_typed_data(typed_data).result
    /\ op' = "evm_sign_typed_data"
    /\ local' = [stage |-> 0]
    /\ pc' = "done"

----------------------------------------------------------------------------
(* U256 arithmetic, on integers of UBytes bytes *)

U256_MAX == (2 ^ (8 * UBytes)) - 1
U256_MODULUS == 2 ^ (8 * UBytes)

\* Uint::saturating_mul: clamps to U256::MAX
saturating_mul(a, b) ==
    IF b # 0 /\ a > U256_MAX \div b THEN U256_MAX ELSE a * b

\* Uint::saturating_add: clamps to U256::MAX
saturating_add(a, b) ==
    IF a > U256_MAX - b THEN U256_MAX ELSE a + b

\* the + operator of Uint (Add::add): wraps around on overflow
wrapping_add(a, b) == (a + b) % U256_MODULUS

\* the - operator of Uint (Sub::sub): wraps around on underflow
wrapping_sub(a, b) == (a + U256_MODULUS - b) % U256_MODULUS

\* the * operator of Uint (Mul::mul): wraps around on overflow
RECURSIVE wrapping_mul(_, _)
wrapping_mul(a, b) ==
    IF b = 0 THEN 0
    ELSE (2 * wrapping_mul(a, b \div 2) + (b % 2) * a) % U256_MODULUS

\* U256::from_be_slice: big-endian bytes, left-padded with zeros
RECURSIVE from_be_slice(_)
from_be_slice(bytes) ==
    IF Len(bytes) = 0 THEN 0
    ELSE 256 * from_be_slice(SubSeq(bytes, 1, Len(bytes) - 1)) + bytes[Len(bytes)]

----------------------------------------------------------------------------
(* Hex payloads: strings are sequences of characters *)

HexValue(c) ==
    CASE c = "0" -> 0 [] c = "1" -> 1 [] c = "2" -> 2 [] c = "3" -> 3
      [] c = "4" -> 4 [] c = "5" -> 5 [] c = "6" -> 6 [] c = "7" -> 7
      [] c = "8" -> 8 [] c = "9" -> 9
      [] c \in {"a", "A"} -> 10 [] c \in {"b", "B"} -> 11 [] c \in {"c", "C"} -> 12
      [] c \in {"d", "D"} -> 13 [] c \in {"e", "E"} -> 14 [] c \in {"f", "F"} -> 15
      [] OTHER -> -1

\* hex::decode: Err on an odd number of digits or a non-hex character
hex_decode(str) ==
    IF Len(str) % 2 = 1
    THEN Err("FromHexError", "Odd number of digits", NoDetail)
    ELSE IF \E i \in 1..Len(str) : HexValue(str[i]) < 0
    THEN Err("FromHexError", "Invalid character", NoDetail)
    ELSE Ok([i \in 1..(Len(str) \div 2) |->
                16 * HexValue(str[2 * i - 1]) + HexValue(str[2 * i])])

\* str::trim_start_matches("0x"): removes every leading repetition of "0x"
RECURSIVE trim_start_matches_0x(_)
trim_start_matches_0x(str) ==
    IF Len(str) >= 2 /\ str[1] = "0" /\ str[2] = "x"
    THEN trim_start_matches_0x(SubSeq(str, 3, Len(str)))
    ELSE str

----------------------------------------------------------------------------
(* Optimism price handler *)

DEFAULT_GAS_LIMIT == 21000
OPTIMISM_GAS_PRICE_ORACLE_ADDRESS == "0x420000000000000000000000000000000000000F"

FN_SELECTOR_L1_BASE_FEE == <<81, 155, 75, 211>>
FN_SELECTOR_BASE_FEE == <<110, 242, 92, 58>>
FN_SELECTOR_DECIMALS == <<49, 60, 229, 103>>
FN_SELECTOR_BLOB_BASE_FEE == <<248, 32, 97, 64>>
FN_SELECTOR_BASE_FEE_SCALAR == <<197, 152, 89, 24>>
FN_SELECTOR_BLOB_BASE_FEE_SCALAR == <<104, 213, 220, 166>>

\* create_contract_call: a call to the oracle whose input is the selector
create_contract_call(selector) ==
    [fn |-> "call_contract", to |-> OPTIMISM_GAS_PRICE_ORACLE_ADDRESS, input |-> selector]

\* a read that takes the return bytes least significant byte first
read_u256_little_endian(answer) ==
    IF ~answer.ok
    THEN Err("UnexpectedError", "", answer.err)
    ELSE Ok(from_be_slice([i \in 1..Len(answer.val) |->
                              answer.val[Len(answer.val) + 1 - i]]))

\* read_u256, after call_contract returned
read_u256(answer) ==
    IF ~answer.ok
    THEN Err("UnexpectedError", "", answer.err)
    ELSE Ok(from_be_slice(answer.val))

\* e.to_string() of a TransactionError: its Display text, which embeds the
\* message it carries
TransactionError_to_string(e) == <<"Display", e.kind, e.detail>>

\* a selector list in which baseFee() and decimals() changed places
fetch_fee_data_selectors_swapped ==
    <<FN_SELECTOR_L1_BASE_FEE, FN_SELECTOR_DECIMALS, FN_SELECTOR_BASE_FEE,
      FN_SELECTOR_BLOB_BASE_FEE, FN_SELECTOR_BASE_FEE_SCALAR,
      FN_SELECTOR_BLOB_BASE_FEE_SCALAR>>

\* the selectors of the six reads joined by fetch_fee_data, in tuple order
fetch_fee_data_selectors ==
    <<FN_SELECTOR_L1_BASE_FEE, FN_SELECTOR_BASE_FEE, FN_SELECTOR_DECIMALS,
      FN_SELECTOR_BLOB_BASE_FEE, FN_SELECTOR_BASE_FEE_SCALAR,
      FN_SELECTOR_BLOB_BASE_FEE_SCALAR>>

\* fetch_fee_data, after try_join! returned the tuple of the six values
OptimismFeeData(values) ==
    [l1_base_fee |-> values[1], base_fee |-> values[2], decimals |-> values[3],
     blob_base_fee |-> values[4], base_fee_scalar |-> values[5],
     blob_base_fee_scalar |-> values[6]]

\* fetch_fee_data, after try_join! returned the error e of a read
fetch_fee_data_error(e) == Err("UnexpectedError", "", TransactionError_to_string(e))

\* a size that rounds the weighted byte count up instead of down
calculate_compressed_tx_size_rounded_up(tx) ==
    LET decoded == IF tx.data.some
                   THEN hex_decode(trim_start_matches_0x(tx.data.v))
                   ELSE Ok(<<>>)
        data_bytes == IF decoded.ok THEN decoded.val ELSE <<>>
        zero_bytes == Cardinality({i \in 1..Len(data_bytes) : data_bytes[i] = 0})
        non_zero_bytes == wrapping_sub(Len(data_bytes), zero_bytes)
    IN  (wrapping_add(wrapping_mul(zero_bytes, 4), wrapping_mul(non_zero_bytes, 16)) + 15)
            \div 16

\* a size that takes the characters of an undecodable payload for its bytes
calculate_compressed_tx_size_raw(tx) ==
    LET digits == IF tx.data.some THEN trim_start_matches_0x(tx.data.v) ELSE <<>>
        decoded == hex_decode(digits)
        data_bytes == IF decoded.ok THEN decoded.val ELSE [i \in 1..Len(digits) |-> 1]
        zero_bytes == Cardinality({i \in 1..Len(data_bytes) : data_bytes[i] = 0})
        non_zero_bytes == wrapping_sub(Len(data_bytes), zero_bytes)
    IN  wrapping_add(wrapping_mul(zero_bytes, 4), wrapping_mul(non_zero_bytes, 16)) \div 16

calculate_compressed_tx_size(tx) ==
    LET decoded == IF tx.data.some
                   THEN hex_decode(trim_start_matches_0x(tx.data.v))
                   ELSE Ok(<<>>)
        data_bytes == IF decoded.ok THEN decoded.val ELSE <<>>
        zero_bytes == Cardinality({i \in 1..Len(data_bytes) : data_bytes[i] = 0})
        non_zero_bytes == wrapping_sub(Len(data_bytes), zero_bytes)
    IN  wrapping_add(wrapping_mul(zero_bytes, 4), wrapping_mul(non_zero_bytes, 16)) \div 16

calculate_fee(fee_data, tx) ==
    LET tx_compressed_size == calculate_compressed_tx_size(tx)
        weighted_gas_price ==
            wrapping_add(
                saturating_mul(saturating_mul(16, fee_data.base_fee_scalar),
                               fee_data.l1_base_fee),
                saturating_mul(fee_data.blob_base_fee_scalar, fee_data.blob_base_fee))
    IN  saturating_mul(tx_compressed_size, weighted_gas_price)

\* PriceParams::calculate_total_cost
calculate_total_cost(params, eip1559, gas_limit, value) ==
    LET price == IF eip1559
                 THEN (IF params.max_fee_per_gas.some THEN params.max_fee_per_gas.v ELSE 0)
                 ELSE (IF params.gas_price.some THEN params.gas_price.v ELSE 0)
        extra == IF params.extra_fee.some THEN params.extra_fee.v ELSE 0
    IN  wrapping_add(wrapping_add(wrapping_mul(price, gas_limit), value), extra)

\* a handler that adds the L1 data cost to the surcharge that came in
Optimism_handle_price_params_accumulating(tx, original_params, fee_data) ==
    LET l1_data_cost == calculate_fee(fee_data, tx)
        before == IF original_params.extra_fee.some THEN original_params.extra_fee.v ELSE 0
        with_fee == [original_params EXCEPT
                        !.extra_fee = Some(wrapping_add(before, l1_data_cost))]
        gas_limit == IF tx.gas_limit.some THEN tx.gas_limit.v ELSE DEFAULT_GAS_LIMIT
        value == tx.value
        eip1559 == with_fee.max_fee_per_gas.some
    IN  Ok([with_fee EXCEPT
               !.total_cost = calculate_total_cost(with_fee, eip1559, gas_limit, value)])

\* a handler that computes the total cost before it sets the extra fee
Optimism_handle_price_params_stale(tx, original_params, fee_data) ==
    LET l1_data_cost == calculate_fee(fee_data, tx)
        gas_limit == IF tx.gas_limit.some THEN tx.gas_limit.v ELSE DEFAULT_GAS_LIMIT
        value == tx.value
        eip1559 == original_params.max_fee_per_gas.some
        total_cost == calculate_total_cost(original_params, eip1559, gas_limit, value)
    IN  Ok([original_params EXCEPT !.extra_fee = Some(l1_data_cost),
                                   !.total_cost = total_cost])

\* a handler that also turns a legacy quote into an EIP-1559 quote
Optimism_handle_price_params_repriced(tx, original_params, fee_data) ==
    LET l1_data_cost == calculate_fee(fee_data, tx)
        with_fee == [original_params EXCEPT
                        !.extra_fee = Some(l1_data_cost),
                        !.max_fee_per_gas = IF original_params.max_fee_per_gas.some
                                            THEN original_params.max_fee_per_gas
                                            ELSE original_params.gas_price]
        gas_limit == IF tx.gas_limit.some THEN tx.gas_limit.v ELSE DEFAULT_GAS_LIMIT
        value == tx.value
        eip1559 == with_fee.max_fee_per_gas.some
    IN  Ok([with_fee EXCEPT
               !.total_cost = calculate_total_cost(with_fee, eip1559, gas_limit, value)])

\* handle_price_params, after fetch_fee_data returned Ok(fee_data)
Optimism_handle_price_params(tx, original_params, fee_data) ==
    LET l1_data_cost == calculate_fee(fee_data, tx)
        with_fee == [original_params EXCEPT !.extra_fee = Some(l1_data_cost)]
        gas_limit == IF tx.gas_limit.some THEN tx.gas_limit.v ELSE DEFAULT_GAS_LIMIT
        value == tx.value
        eip1559 == with_fee.max_fee_per_gas.some
    IN  Ok([with_fee EXCEPT
               !.total_cost = calculate_total_cost(with_fee, eip1559, gas_limit, value)])

----------------------------------------------------------------------------
(* Inputs of the Optimism price handler *)

EvmTransactionRequests ==
    { [to |-> Some("0x742d35Cc6634C0532925a3b844Bc454e4438f44e"),
       value |-> 1000, data |-> d, gas_limit |-> g] :
        d \in { None,
                Some(<<"0", "x", "1", "2", "3">>),
                Some(<<"0", "x", "g", "h", "1", "2">>),
                Some(<<"0", "x", "0", "0", "0", "0", "1", "2", "3", "4">>),
                Some(<<"0", "x", "1", "2", "3", "4", "5", "6", "7", "8",
                       "9", "0", "a", "b", "c", "d", "e", "f">>) },
        g \in { None, Some(3) } }

PriceParamsInputs ==
    { [gas_price |-> Some(2), max_fee_per_gas |-> None,
       max_priority_fee_per_gas |-> None, is_min_bumped |-> None,
       extra_fee |-> None, total_cost |-> 0],
      [gas_price |-> None, max_fee_per_gas |-> Some(3),
       max_priority_fee_per_gas |-> Some(1), is_min_bumped |-> Some(TRUE),
       extra_fee |-> None, total_cost |-> 1009],
      [gas_price |-> Some(2), max_fee_per_gas |-> None,
       max_priority_fee_per_gas |-> None, is_min_bumped |-> None,
       extra_fee |-> Some(42), total_cost |-> 1048] }

MaxBytes == [i \in 1..UBytes |-> 255]

\* return bytes the oracle may give for a call, by selector
OracleReturns(selector) ==
    CASE selector = FN_SELECTOR_L1_BASE_FEE -> {<<1>>, MaxBytes}
      [] selector = FN_SELECTOR_BASE_FEE -> {<<0, 2>>}
      [] selector = FN_SELECTOR_DECIMALS -> {<<6>>}
      [] selector = FN_SELECTOR_BLOB_BASE_FEE -> {<<>>, <<1>>}
      [] selector = FN_SELECTOR_BASE_FEE_SCALAR -> {<<1>>, <<3>>}
      [] selector = FN_SELECTOR_BLOB_BASE_FEE_SCALAR -> {<<1>>, MaxBytes}

ProviderErrors == {"rpc error", "timeout"}

\* Ok(bytes) / Err(e) answers of call_contract for a call
CallContractResults(call) ==
    { Ok(b) : b \in OracleReturns(call.input) }
    \cup { [ok |-> FALSE, err |-> e] : e \in ProviderErrors }

----------------------------------------------------------------------------
(* PriceParamsHandler::for_network *)

OPTIMISM_BASED_TAG == "optimism_based"

\* EvmNetwork values: only the tags matter to the selection
EvmNetworks ==
    { [network |-> "test-network", chain_id |-> 1, tags |-> t] :
        t \in { <<>>, <<"mainnet">>, <<OPTIMISM_BASED_TAG>>,
                <<"rollup", OPTIMISM_BASED_TAG>>, <<"rollup">>, <<"arbitrum_based">> } }

EvmProviders == { [rpc_urls |-> <<u>>] : u \in {"http://localhost:8545", "https://rpc.example.com"} }

\* EvmNetwork::is_optimism: the network carries the Optimism-family tag
is_optimism(network) == \E i \in 1..Len(network.tags) : network.tags[i] = OPTIMISM_BASED_TAG

\* a selection that gives every network that has any tag the Optimism handler
for_network_any_tag(network, provider) ==
    IF Len(network.tags) > 0
    THEN Some([variant |-> "Optimism", provider |-> provider])
    ELSE None

\* for_network: Some(Optimism handler over the provider) or None
for_network(network, provider) ==
    IF is_optimism(network)
    THEN Some([variant |-> "Optimism", provider |-> provider])
    ELSE None

ForNetwork ==
    /\ pc = "idle"
    /\ \E network \in EvmNetworks, provider \in EvmProviders :
        /\ req' = [network |-> network, provider |-> provider]
        /\ result' = for_network(network, provider)
    /\ op' = "for_network"
    /\ calls' = <<>>
    /\ local' = [stage |-> 0]
    /\ pc' = "done"

----------------------------------------------------------------------------
(* MockPriceHandler: the handler of the Mock variant of PriceParamsHandler *)

\* MockPriceHandler::handle_price_params: a fixed surcharge of 42
Mock_handle_price_params(tx, original_params) ==
    Ok([original_params EXCEPT
           !.extra_fee = Some(42),
           !.total_cost = wrapping_add(original_params.total_cost, 42)])

\* PriceParamsHandler::handle_price_params on the Mock variant: no await point
Mock_HandlePriceParams ==
    /\ pc = "idle"
    /\ \E tx \in EvmTransactionRequests, original_params \in PriceParamsInputs :
        /\ req' = [tx |-> tx, original_params |-> original_params]
        /\ result' = Mock_handle_price_params(tx, original_params)
    /\ op' = "mock_handle_price_params"
    /\ calls' = <<>>
    /\ local' = [stage |-> 0]
    /\ pc' = "done"

----------------------------------------------------------------------------
(* calculate_compressed_tx_size applied on its own to a transaction *)

DataBytes == {0, 18, 52}

\* data payloads: absent, empty, hex of up to MaxData bytes with and without
\* the 0x prefix, upper-case digits, and strings that are no hex
DataPayloads ==
    { None, Some(<<>>) }
    \cup { Some(prefix \o hex_encode(bytes)) :
             prefix \in {<<>>, <<"0", "x">>}, bytes \in SeqsUpTo(DataBytes, MaxData) }
    \cup { Some(<<"0", "x", "A", "b", "0", "0">>), Some(<<"0", "x", "0", "x", "1", "2">>),
           Some(<<"0", "x", "1", "2", "3">>), Some(<<"0", "x", "g", "h">>),
           Some(<<"0", "x", "0", "x", "1">>), Some(<<"1", "2", "0", "x">>),
           Some(<<"0", "X", "1", "2">>) }

CompressedSizeRequests ==
    { [to |-> Some("0x742d35Cc6634C0532925a3b844Bc454e4438f44e"),
       value |-> 1000, data |-> d, gas_limit |-> Some(21000)] : d \in DataPayloads }

CalculateCompressedTxSize ==
    /\ pc = "idle"
    /\ \E tx \in CompressedSizeRequests :
        /\ req' = [tx |-> tx]
        /\ result' = calculate_compressed_tx_size(tx)
    /\ op' = "calculate_compressed_tx_size"
    /\ calls' = <<>>
    /\ local' = [stage |-> 0]
    /\ pc' = "done"

----------------------------------------------------------------------------
(* Optimism handle_price_params: fetch_fee_data joins six reads; a read is  *)
(* "unpolled" until try_join! polls it for the first time (in tuple order), *)
(* which issues its call; the call then answers at once or leaves the read  *)
(* "inflight"; a read that answered is "ready".                             *)

ReadIndices == 1..6

UnpolledRead == [status |-> "unpolled"]

\* the state of read i after call_contract answered
ReadAnswered(answer) == [status |-> "ready", answer |-> answer, out |-> read_u256(answer)]

\* a join that waits for all six reads and then reports the error of the
\* failed read that comes first in tuple order
Optimism_Continue_join_all(reads, i) ==
    IF \A j \in ReadIndices : reads[j].status = "ready"
    THEN IF \E j \in ReadIndices : ~reads[j].out.ok
         THEN LET k == CHOOSE j \in ReadIndices :
                          /\ ~reads[j].out.ok
                          /\ \A l \in 1..(j-1) : reads[l].out.ok
              IN  /\ pc' = "done"
                  /\ result' = fetch_fee_data_error(reads[k].out)
                  /\ local' = [stage |-> 1, reads |-> reads]
         ELSE LET fee_data == OptimismFeeData([j \in ReadIndices |-> reads[j].out.val])
              IN  /\ pc' = "done"
                  /\ result' = Optimism_handle_price_params(req.tx, req.original_params,
                                                            fee_data)
                  /\ local' = [stage |-> 2, reads |-> reads, fee_data |-> fee_data]
    ELSE /\ pc' = "optimism_await_reads"
         /\ result' = NoResult
         /\ local' = [stage |-> 0, reads |-> reads]

\* what handle_price_params does once a read changed: stay suspended, fail
\* with the read's error, or finish with the adjusted params
Optimism_Continue(reads, i) ==
    IF reads[i].status = "ready" /\ ~reads[i].out.ok
    THEN /\ pc' = "done"
         /\ result' = fetch_fee_data_error(reads[i].out)
         /\ local' = [stage |-> 1, reads |-> reads]
    ELSE IF \A j \in ReadIndices : reads[j].status = "ready"
    THEN LET fee_data == OptimismFeeData([j \in ReadIndices |-> reads[j].out.val])
         IN  /\ pc' = "done"
             /\ result' = Optimism_handle_price_params(req.tx, req.original_params, fee_data)
             /\ local' = [stage |-> 2, reads |-> reads, fee_data |-> fee_data]
    ELSE /\ pc' = "optimism_await_reads"
         /\ result' = NoResult
         /\ local' = [stage |-> 0, reads |-> reads]

Optimism_Begin ==
    /\ pc = "idle"
    /\ \E tx \in EvmTransactionRequests, original_params \in PriceParamsInputs :
        req' = [tx |-> tx, original_params |-> original_params]
    /\ op' = "optimism_handle_price_params"
    /\ pc' = "optimism_await_reads"
    /\ local' = [stage |-> 0, reads |-> [i \in ReadIndices |-> UnpolledRead]]
    /\ calls' = <<>>
    /\ result' = NoResult

\* the first poll of try_join! reaches read i: its call is issued, and the
\* provider answers at once or later
Optimism_FirstPoll(i) ==
    /\ pc = "optimism_await_reads"
    /\ local.reads[i].status = "unpolled"
    /\ \A j \in 1..(i-1) : local.reads[j].status # "unpolled"
    /\ LET call == create_contract_call(fetch_fee_data_selectors[i])
       IN  /\ calls' = Append(calls, call)
           /\ \/ Optimism_Continue([local.reads EXCEPT ![i] = [status |-> "inflight"]], i)
              \/ \E answer \in CallContractResults(call) :
                    Optimism_Continue([local.reads EXCEPT ![i] = ReadAnswered(answer)], i)
    /\ UNCHANGED <<op, req>>

\* the provider answers the call of read i, and try_join! polls the read
Optimism_ReadReturns(i) ==
    /\ pc = "optimism_await_reads"
    /\ local.reads[i].status = "inflight"
    /\ \A j \in ReadIndices : local.reads[j].status # "unpolled"
    /\ \E answer \in CallContractResults(create_contract_call(fetch_fee_data_selectors[i])) :
          Optimism_Continue([local.reads EXCEPT ![i] = ReadAnswered(answer)], i)
    /\ UNCHANGED <<op, req, calls>>

----------------------------------------------------------------------------
(* CdpService: the configured account and its address                      *)
(* Strings that the service inspects are sequences of characters.          *)

\* a string of n characters that repeats pattern
Repeat(pattern, n) == [i \in 1..n |-> pattern[((i - 1) % Len(pattern)) + 1]]

\* str::starts_with("0x")
starts_with_0x(str) == Len(str) >= 2 /\ str[1] = "0" /\ str[2] = "x"

\* str::strip_prefix("0x"): Some(rest) when the prefix is there, else None
strip_prefix_0x(str) ==
    IF starts_with_0x(str) THEN Some(SubSeq(str, 3, Len(str))) ELSE None

\* account strings a CdpSignerConfig may carry: any prefix, hex and non-hex
\* bodies, around the 40 digits of an EVM address
AccountAddressPrefixes == {<<>>, <<"0", "x">>, <<"0", "X">>, <<"0", "x", "0", "x">>}
AccountAddressPatterns ==
    { <<"0">>, <<"a", "F">>, <<"7", "4", "2", "d", "3", "5", "C", "c">>,
      <<"6", "s", "7", "R", "s", "v", "z">>, <<"1", "g">> }
AccountAddressLengths == {0, 1, 2, 38, 39, 40, 41, 42}

AccountAddressStrings ==
    { prefix \o Repeat(pattern, n) :
        prefix \in AccountAddressPrefixes,
        pattern \in AccountAddressPatterns,
        n \in AccountAddressLengths }

\* the services that CdpService::new may build (only the account matters)
CdpServices == { [config |-> [account_address |-> a]] : a \in AccountAddressStrings }

get_account_address(self) == self.config.account_address

\* a guard that takes only 0x followed by the hex of 20 bytes for an EVM account
is_evm_address_strict(self) ==
    /\ starts_with_0x(self.config.account_address)
    /\ LET bytes == hex_decode(strip_prefix_0x(self.config.account_address).v)
       IN  bytes.ok /\ Len(bytes.val) = 20

is_evm_address(self) == starts_with_0x(self.config.account_address)

\* a guard that takes every configured account for a Solana account
is_solana_address_unchecked(self) == TRUE

is_solana_address(self) == ~starts_with_0x(self.config.account_address)

\* Result<_, CdpError> values
CdpErr(kind, msg, detail) ==
    [ok |-> FALSE, err |-> [kind |-> kind, msg |-> msg, detail |-> detail]]

\* a conversion that also takes 40 unprefixed hex digits for an EVM address
address_from_string_unprefixed(address_str) ==
    LET hex_str == IF starts_with_0x(address_str)
                   THEN strip_prefix_0x(address_str).v
                   ELSE address_str
        bytes == hex_decode(hex_str)
    IN  IF starts_with_0x(address_str) \/ (bytes.ok /\ Len(bytes.val) = 20)
        THEN IF ~bytes.ok
             THEN CdpErr("ConfigError", "Invalid hex address: ", bytes.msg)
             ELSE IF Len(bytes.val) # 20
             THEN CdpErr("ConfigError", "EVM address should be 20 bytes, got ",
                         Len(bytes.val))
             ELSE Ok(Address_Evm(bytes.val))
        ELSE Ok(Address_Solana(address_str))

\* a conversion that fits any decoded bytes into the 20-byte array
address_from_string_any_len(address_str) ==
    IF starts_with_0x(address_str)
    THEN LET bytes == hex_decode(strip_prefix_0x(address_str).v)
         IN  IF ~bytes.ok
             THEN CdpErr("ConfigError", "Invalid hex address: ", bytes.msg)
             ELSE Ok(Address_Evm([i \in 1..20 |->
                        IF i <= Len(bytes.val) THEN bytes.val[i] ELSE 0]))
    ELSE Ok(Address_Solana(address_str))

\* address_from_string: 0x-prefixed hex of 20 bytes, or a Solana string
address_from_string(address_str) ==
    IF starts_with_0x(address_str)
    THEN LET hex_str == strip_prefix_0x(address_str).v
             bytes == hex_decode(hex_str)
         IN  IF ~bytes.ok
             THEN CdpErr("ConfigError", "Invalid hex address: ", bytes.msg)
             ELSE IF Len(bytes.val) # 20
             THEN CdpErr("ConfigError", "EVM address should be 20 bytes, got ",
                         Len(bytes.val))
             ELSE Ok(Address_Evm(bytes.val))
    ELSE Ok(Address_Solana(address_str))

\* CdpService::account_address: no suspension point, no request
CdpService_AccountAddress ==
    /\ pc = "idle"
    /\ \E self \in CdpServices :
        /\ req' = [self |-> self]
        /\ result' = address_from_string(get_account_address(self))
    /\ op' = "cdp_account_address"
    /\ calls' = <<>>
    /\ local' = [stage |-> 0]
    /\ pc' = "done"

----------------------------------------------------------------------------
(* CdpService: encodings of the requests and of the backend's responses *)

\* str::from_utf8 accepts exactly the well-formed UTF-8 byte sequences
RECURSIVE utf8_valid(_)
utf8_valid(bytes) ==
    LET n == Len(bytes)
        cont(i) == i <= n /\ bytes[i] >= 128 /\ bytes[i] <= 191
        rest(k) == utf8_valid(SubSeq(bytes, k + 1, n))
    IN  IF n = 0 THEN TRUE
        ELSE IF bytes[1] <= 127 THEN rest(1)
        ELSE IF bytes[1] >= 194 /\ bytes[1] <= 223 THEN cont(2) /\ rest(2)
        ELSE IF bytes[1] = 224 THEN cont(2) /\ bytes[2] >= 160 /\ cont(3) /\ rest(3)
        ELSE IF bytes[1] = 237 THEN cont(2) /\ bytes[2] <= 159 /\ cont(3) /\ rest(3)
        ELSE IF bytes[1] >= 225 /\ bytes[1] <= 239 THEN cont(2) /\ cont(3) /\ rest(3)
        ELSE IF bytes[1] = 240
        THEN cont(2) /\ bytes[2] >= 144 /\ cont(3) /\ cont(4) /\ rest(4)
        ELSE IF bytes[1] = 244
        THEN cont(2) /\ bytes[2] <= 143 /\ cont(3) /\ cont(4) /\ rest(4)
        ELSE IF bytes[1] >= 241 /\ bytes[1] <= 243
        THEN cont(2) /\ cont(3) /\ cont(4) /\ rest(4)
        ELSE FALSE

\* str::from_utf8(message): the same bytes seen as a string, or Utf8Error
from_utf8(bytes) ==
    IF utf8_valid(bytes) THEN Ok(bytes) ELSE Err("Utf8Error", "invalid utf-8 sequence", NoDetail)

Base58Alphabet ==
    <<"1", "2", "3", "4", "5", "6", "7", "8", "9",
      "A", "B", "C", "D", "E", "F", "G", "H", "J", "K", "L", "M", "N", "P", "Q",
      "R", "S", "T", "U", "V", "W", "X", "Y", "Z",
      "a", "b", "c", "d", "e", "f", "g", "h", "i", "j", "k", "m", "n", "o", "p",
      "q", "r", "s", "t", "u", "v", "w", "x", "y", "z">>

Base58Index(c) == CHOOSE i \in 1..58 : Base58Alphabet[i] = c

\* the number a base58 string denotes, most significant digit first
RECURSIVE Base58Value(_)
Base58Value(str) ==
    IF Len(str) = 0 THEN 0
    ELSE 58 * Base58Value(SubSeq(str, 1, Len(str) - 1)) + (Base58Index(str[Len(str)]) - 1)

\* the big-endian bytes of n, none for 0
RECURSIVE BytesBE(_)
BytesBE(n) == IF n = 0 THEN <<>> ELSE Append(BytesBE(n \div 256), n % 256)

\* bs58::decode(..).into_vec(): one zero byte per leading '1', then the
\* big-endian bytes of the remaining digits; Err on a foreign character
bs58_decode(str) ==
    IF \E i \in 1..Len(str) : \A k \in 1..58 : Base58Alphabet[k] # str[i]
    THEN Err("bs58", "provided string contained invalid character", NoDetail)
    ELSE LET ones == CHOOSE z \in 0..Len(str) :
                        /\ \A i \in 1..z : str[i] = "1"
                        /\ z < Len(str) => str[z + 1] # "1"
         IN  Ok([i \in 1..ones |-> 0] \o BytesBE(Base58Value(SubSeq(str, ones + 1, Len(str)))))

\* Option::unwrap_or
unwrap_or(opt, default) == IF opt.some THEN opt.v ELSE default

----------------------------------------------------------------------------
(* CdpService: the four signing operations.  Each checks the kind of the    *)
(* configured account, sends one request (.send().await) and decodes the    *)
(* string of the response.                                                  *)

\* error responses of the backend (status and errorType of the body)
SendErrors ==
    { [status |-> 400, errorType |-> "malformed_transaction"],
      [status |-> 401, errorType |-> "unauthorized"],
      [status |-> 422, errorType |-> "invalid_signature_request"],
      [status |-> 500, errorType |-> "internal_error"] }

\* outcomes of .send().await: a 200 response with one of the bodies, or an error
SendResults(bodies) ==
    { Ok(b) : b \in bodies } \cup { [ok |-> FALSE, err |-> e] : e \in SendErrors }

\* hex strings a response may carry
HexResponses ==
    { <<"0", "x", "a", "b", "1", "2">>, <<"A", "b", "1", "2">>, <<"0", "x">>,
      <<"0", "x", "z", "z">>, <<"0", "x", "a">>,
      <<"0", "x", "0", "x", "1", "2">> }

\* base58 strings a response may carry
Base58Responses == { <<"2">>, <<"1", "1", "5", "V">>, <<"z", "z">>, <<>>, <<"0">>, <<"l", "2">> }

\* base64 strings a response may carry
Base64Responses == { base64_encode(<<1, 11, 1, 1, 1>>), base64_encode(<<>>), <<1001, 61>> }

\* sign_evm_message, up to .send(): Err(ConfigError) or the request
CdpService_sign_evm_message_request(self, message) ==
    IF ~is_evm_address(self)
    THEN CdpErr("ConfigError",
                "Account address is not an EVM address (must start with 0x)", NoDetail)
    ELSE Ok([fn |-> "POST sign_evm_message", address |-> get_account_address(self),
             body |-> [message |-> message]])

\* a response step that reports a refused credential by its own error kind
CdpService_sign_evm_message_response_by_status(sent) ==
    IF ~sent.ok
    THEN IF sent.err.status = 401
         THEN CdpErr("AuthenticationFailed", "Failed to sign message: ", sent.err)
         ELSE CdpErr("SigningError", "Failed to sign message: ", sent.err)
    ELSE LET signature_bytes ==
                 hex_decode(unwrap_or(strip_prefix_0x(sent.val.signature),
                                      sent.val.signature))
         IN  IF ~signature_bytes.ok
             THEN CdpErr("SigningError", "Invalid signature hex: ", signature_bytes.msg)
             ELSE Ok(signature_bytes.val)

\* sign_evm_message, after .send().await
CdpService_sign_evm_message_response(sent) ==
    IF ~sent.ok
    THEN CdpErr("SigningError", "Failed to sign message: ", sent.err)
    ELSE LET signature_bytes ==
                 hex_decode(unwrap_or(strip_prefix_0x(sent.val.signature),
                                      sent.val.signature))
         IN  IF ~signature_bytes.ok
             THEN CdpErr("SigningError", "Invalid signature hex: ", signature_bytes.msg)
             ELSE Ok(signature_bytes.val)

\* sign_evm_transaction, up to .send(): the bytes go out as 0x-prefixed hex
CdpService_sign_evm_transaction_request(self, message) ==
    IF ~is_evm_address(self)
    THEN CdpErr("ConfigError",
                "Account address is not an EVM address (must start with 0x)", NoDetail)
    ELSE Ok([fn |-> "POST sign_evm_transaction", address |-> get_account_address(self),
             body |-> [transaction |-> <<"0", "x">> \o hex_encode(message)]])

\* sign_evm_transaction, after .send().await
CdpService_sign_evm_transaction_response(sent) ==
    IF ~sent.ok
    THEN CdpErr("SigningError", "Failed to sign transaction: ", sent.err)
    ELSE LET signed_tx_bytes ==
                 hex_decode(unwrap_or(strip_prefix_0x(sent.val.signed_transaction),
                                      sent.val.signed_transaction))
         IN  IF ~signed_tx_bytes.ok
             THEN CdpErr("SigningError", "Invalid signed transaction hex: ",
                         signed_tx_bytes.msg)
             ELSE Ok(signed_tx_bytes.val)

\* sign_solana_message, up to .send(): the bytes must be a UTF-8 string
CdpService_sign_solana_message_request(self, message) ==
    IF ~is_solana_address(self)
    THEN CdpErr("ConfigError",
                "Account address is not a Solana address (must not start with 0x)",
                NoDetail)
    ELSE LET encoded_message == from_utf8(message)
         IN  IF ~encoded_message.ok
             THEN CdpErr("SerializationError", "Invalid UTF-8 message: ",
                         encoded_message.msg)
             ELSE Ok([fn |-> "POST sign_solana_message",
                      address |-> get_account_address(self),
                      body |-> [message |-> encoded_message.val]])

\* sign_solana_message, after .send().await
CdpService_sign_solana_message_response(sent) ==
    IF ~sent.ok
    THEN CdpErr("SigningError", "Failed to sign Solana message: ", sent.err)
    ELSE LET signature_bytes == bs58_decode(sent.val.signature)
         IN  IF ~signature_bytes.ok
             THEN CdpErr("SigningError", "Invalid Solana signature base58: ",
                         signature_bytes.msg)
             ELSE Ok(signature_bytes.val)

\* sign_solana_transaction, up to .send()
CdpService_sign_solana_transaction_request(self, transaction) ==
    IF ~is_solana_address(self)
    THEN CdpErr("ConfigError",
                "Account address is not a Solana address (must not start with 0x)",
                NoDetail)
    ELSE Ok([fn |-> "POST sign_solana_transaction",
             address |-> get_account_address(self),
             body |-> [transaction |-> transaction]])

\* sign_solana_transaction, after .send().await
CdpService_sign_solana_transaction_response(sent) ==
    IF ~sent.ok
    THEN CdpErr("SigningError", "Failed to sign Solana transaction: ", sent.err)
    ELSE LET signature_bytes == base64_decode(sent.val.signed_transaction)
         IN  IF ~signature_bytes.ok
             THEN CdpErr("SigningError", "Invalid Solana signed transaction base64: ",
                         signature_bytes.msg)
             ELSE Ok(signature_bytes.val)

\* arguments of the four operations
SignEvmMessageInputs == {"Test message", ""}
SignEvmTransactionInputs == {<<2, 0>>, <<248, 0, 171>>, <<>>}
SignSolanaMessageInputs == {<<72, 105>>, <<>>, <<255>>, <<195, 169>>, <<195>>}
SignSolanaTransactionInputs == {base64_encode(<<1, 10, 1, 1, 1>>), <<>>, <<7>>}

\* an operation up to its suspension point: a refused request returns at
\* once, any other is sent and awaited
CdpService_Begin(name, await, self, argument, request) ==
    /\ pc = "idle"
    /\ op' = name
    /\ req' = [self |-> self, argument |-> argument]
    /\ local' = [stage |-> 0]
    /\ IF request.ok
       THEN /\ calls' = <<request.val>>
            /\ pc' = await
            /\ result' = NoResult
       ELSE /\ calls' = <<>>
            /\ pc' = "done"
            /\ result' = request

\* an operation after .send().await returned sent
CdpService_Returns(await, sent, response) ==
    /\ pc = await
    /\ local' = [stage |-> 1, sent |-> sent]
    /\ result' = response
    /\ pc' = "done"
    /\ UNCHANGED <<op, req, calls>>

CdpService_SignEvmMessage_Begin ==
    /\ pc = "idle"
    /\ \E self \in CdpServices, message \in SignEvmMessageInputs :
        CdpService_Begin("cdp_sign_evm_message", "cdp_sign_evm_message_await_send",
                         self, message,
                         CdpService_sign_evm_message_request(self, message))

CdpService_SignEvmMessage_Returns ==
    /\ pc = "cdp_sign_evm_message_await_send"
    /\ \E sent \in SendResults({ [signature |-> h] : h \in HexResponses }) :
        CdpService_Returns("cdp_sign_evm_message_await_send", sent,
                           CdpService_sign_evm_message_response(sent))

CdpService_SignEvmTransaction_Begin ==
    /\ pc = "idle"
    /\ \E self \in CdpServices, message \in SignEvmTransactionInputs :
        CdpService_Begin("cdp_sign_evm_transaction",
                         "cdp_sign_evm_transaction_await_send", self, message,
                         CdpService_sign_evm_transaction_request(self, message))

CdpService_SignEvmTransaction_Returns ==
    /\ pc = "cdp_sign_evm_transaction_await_send"
    /\ \E sent \in SendResults({ [signed_transaction |-> h] : h \in HexResponses }) :
        CdpService_Returns("cdp_sign_evm_transaction_await_send", sent,
                           CdpService_sign_evm_transaction_response(sent))

CdpService_SignSolanaMessage_Begin ==
    /\ pc = "idle"
    /\ \E self \in CdpServices, message \in SignSolanaMessageInputs :
        CdpService_Begin("cdp_sign_solana_message",
                         "cdp_sign_solana_message_await_send", self, message,
                         CdpService_sign_solana_message_request(self, message))

CdpService_SignSolanaMessage_Returns ==
    /\ pc = "cdp_sign_solana_message_await_send"
    /\ \E sent \in SendResults({ [signature |-> b] : b \in Base58Responses }) :
        CdpService_Returns("cdp_sign_solana_message_await_send", sent,
                           CdpService_sign_solana_message_response(sent))

CdpService_SignSolanaTransaction_Begin ==
    /\ pc = "idle"
    /\ \E self \in CdpServices, transaction \in SignSolanaTransactionInputs :
        CdpService_Begin("cdp_sign_solana_transaction",
                         "cdp_sign_solana_transaction_await_send", self, transaction,
                         CdpService_sign_solana_transaction_request(self, transaction))

CdpService_SignSolanaTransaction_Returns ==
    /\ pc = "cdp_sign_solana_transaction_await_send"
    /\ \E sent \in SendResults({ [signed_transaction |-> b] : b \in Base64Responses }) :
        CdpService_Returns("cdp_sign_solana_transaction_await_send", sent,
                           CdpService_sign_solana_transaction_response(sent))

----------------------------------------------------------------------------
(* The state machine *)

Init ==
    /\ pc = "idle"
    /\ op = "none"
    /\ req = <<>>
    /\ calls = <<>>
    /\ local = <<>>
    /\ result = NoResult

\* the caller takes the result; the signer is ready for the next request
Reset ==
    /\ pc = "done"
    /\ pc' = "idle"
    /\ op' = "none"
    /\ req' = <<>>
    /\ calls' = <<>>
    /\ local' = <<>>
    /\ result' = NoResult

Next ==
    \/ SolanaSign_Begin
    \/ SolanaSign_SignReturns
    \/ SolanaSign_AddressReturns
    \/ SolanaSignTransaction_Begin
    \/ SolanaSignTransaction_SignReturns
    \/ EvmSignTransaction_Begin
    \/ EvmSignTransaction_SignReturns
    \/ EvmSignData_Begin
    \/ EvmSignData_SignReturns
    \/ EvmSignTypedData
    \/ ForNetwork
    \/ Mock_HandlePriceParams
    \/ CalculateCompressedTxSize
    \/ Optimism_Begin
    \/ \E i \in ReadIndices : Optimism_FirstPoll(i)
    \/ \E i \in ReadIndices : Optimism_ReadReturns(i)
    \/ CdpService_AccountAddress
    \/ CdpService_SignEvmMessage_Begin
    \/ CdpService_SignEvmMessage_Returns
    \/ CdpService_SignEvmTransaction_Begin
    \/ CdpService_SignEvmTransaction_Returns
    \/ CdpService_SignSolanaMessage_Begin
    \/ CdpService_SignSolanaMessage_Returns
    \/ CdpService_SignSolanaTransaction_Begin
    \/ CdpService_SignSolanaTransaction_Returns
    \/ Reset

Spec == Init /\ [][Next]_vars

----------------------------------------------------------------------------
(* Properties of Solana sign *)

\* the request is a finished Solana sign whose remote call returned a
\* transaction and whose address lookup returned a Solana pubkey
SolanaSignResolved ==
    /\ pc = "done"
    /\ op = "solana_sign"
    /\ local.stage = 3
    /\ local.address_result.ok
    /\ local.address_result.val.variant = "Solana"
    /\ Pubkey_from_str(local.address_result.val.addr).ok

SolanaSignPubkey == Pubkey_from_str(local.address_result.val.addr).val
SolanaSignKeys == local.signed_transaction.message.account_keys
SolanaSignSigs == local.signed_transaction.signatures

\* C1: when the signer's public key does not occur among the account keys of
\* the transaction the backend returned, sign fails with a SigningError and
\* returns no signature, whatever signatures that transaction carries.
C1_MissingPubkeyFails ==
    (SolanaSignResolved /\ \A i \in 1..Len(SolanaSignKeys) : SolanaSignKeys[i] # SolanaSignPubkey)
        => (~result.ok /\ result.kind = "SigningError")

\* the pubkey is absent although the returned transaction carries signatures
C1_Witness ==
    /\ SolanaSignResolved
    /\ \A i \in 1..Len(SolanaSignKeys) : SolanaSignKeys[i] # SolanaSignPubkey
    /\ Len(SolanaSignKeys) > 0
    /\ Len(SolanaSignSigs) > 0
    /\ ~result.ok
    /\ result.msg = "CDP pubkey not found in transaction signers"

\* C2: a successful sign returns signatures[i], i being the first index at
\* which the signer's pubkey occurs among the returned account keys; when i is
\* not smaller than the number of returned signatures, sign fails with
\* SigningError "Signature index out of bounds".
C2_SignatureAtFirstIndex ==
    /\ (pc = "done" /\ op = "solana_sign" /\ result.ok) =>
          /\ SolanaSignResolved
          /\ \E i \in 1..Len(SolanaSignKeys) :
                /\ SolanaSignKeys[i] = SolanaSignPubkey
                /\ \A j \in 1..(i-1) : SolanaSignKeys[j] # SolanaSignPubkey
                /\ i <= Len(SolanaSignSigs)
                /\ result.val = SolanaSignSigs[i]
    /\ \A i \in 1..MaxKeys + 1 :
          ( /\ SolanaSignResolved
            /\ i <= Len(SolanaSignKeys)
            /\ SolanaSignKeys[i] = SolanaSignPubkey
            /\ \A j \in 1..(i-1) : SolanaSignKeys[j] # SolanaSignPubkey
            /\ i > Len(SolanaSignSigs) )
          => ( /\ ~result.ok
               /\ result.kind = "SigningError"
               /\ result.msg = "Signature index out of bounds" )

\* the signer is not the first account key, its key occurs twice, and the
\* signature returned is the one at its first occurrence
C2_Witness ==
    /\ SolanaSignResolved
    /\ result.ok
    /\ SolanaSignKeys[1] # SolanaSignPubkey
    /\ Cardinality({i \in 1..Len(SolanaSignKeys) : SolanaSignKeys[i] = SolanaSignPubkey}) = 2
    /\ SolanaSignSigs[1] # result.val

\* the positions in calls of the calls to fn
CallsTo(fn) == { i \in 1..Len(calls) : calls[i].fn = fn }

\* the calls of a Solana sign request follow one another: no second signing
\* call, the address lookup only after the signing call returned bytes that
\* decoded, and no lookup after a failed signing call or a failed decode
SolanaSignCallsInSequence ==
    /\ Cardinality(CallsTo("sign_solana_transaction")) <= 1
    /\ Cardinality(CallsTo("account_address")) <= 1
    /\ pc = "solana_sign_await_sign" =>
          (calls = <<[fn |-> "sign_solana_transaction",
                      arg |-> Solana_sign_encode(req.message).val]>> /\ local.stage = 0)
    /\ CallsTo("account_address") # {} =>
          /\ CallsTo("sign_solana_transaction") = {1}
          /\ CallsTo("account_address") = {2}
          /\ local.stage >= 2
          /\ local.sign_result.ok
          /\ EncodedSerializedTransaction_try_into(base64_encode(local.sign_result.val)).ok
    /\ (local.stage >= 1 /\ ~local.sign_result.ok) => CallsTo("account_address") = {}
    /\ ( /\ local.stage >= 1
         /\ local.sign_result.ok
         /\ ~EncodedSerializedTransaction_try_into(base64_encode(local.sign_result.val)).ok )
          => CallsTo("account_address") = {}

\* C22 as stated: within one Solana sign request the calls are sequential,
\* and a finished request has invoked sign_solana_transaction exactly once.
C22_SequentialCalls ==
    op = "solana_sign" =>
        /\ SolanaSignCallsInSequence
        /\ pc = "done" => Cardinality(CallsTo("sign_solana_transaction")) = 1

\* C22 as amended: within one Solana sign request the calls are sequential;
\* sign_solana_transaction is invoked at most once, and exactly once when the
\* message bytes deserialized; a request whose message bytes do not
\* deserialize invokes it not at all.
C22_SequentialCallsAmended ==
    op = "solana_sign" =>
        /\ SolanaSignCallsInSequence
        /\ Cardinality(CallsTo("sign_solana_transaction")) =
              IF bincode_deserialize_message(req.message).ok THEN 1 ELSE 0

\* the signing call returned bytes that do not decode, and no lookup followed
C22_Witness ==
    /\ op = "solana_sign"
    /\ pc = "done"
    /\ local.stage = 1
    /\ local.sign_result.ok
    /\ Len(local.sign_result.val) > 0
    /\ calls = <<[fn |-> "sign_solana_transaction",
                  arg |-> Solana_sign_encode(req.message).val]>>

\* the bytes are cut short of what their own length prefix announces, so
\* they are no serialized Message
MessageBytesTruncated(bytes) ==
    \/ Len(bytes) < 2
    \/ Len(bytes) - 2 < bytes[2]

\* C23: in Solana sign, message bytes that do not deserialize into a Solana
\* message make the call fail with a SigningError before any remote-signer
\* operation (sign_solana_transaction or account_address) is invoked.
C23_BadMessageFailsLocally ==
    (op = "solana_sign" /\ MessageBytesTruncated(req.message)) =>
        /\ pc = "done"
        /\ calls = <<>>
        /\ local.stage = 0
        /\ ~result.ok
        /\ result.kind = "SigningError"
        /\ result.msg = "Failed to deserialize message: "

\* a message whose key count announces more keys than the bytes hold
C23_Witness ==
    /\ op = "solana_sign"
    /\ req.message = <<1, 3, 1>>
    /\ pc = "done"
    /\ ~result.ok
    /\ calls = <<>>

\* the bytes are cut short of a serialized Transaction: of the signatures
\* their length prefix announces, or of the message that follows them
TransactionBytesTruncated(bytes) ==
    \/ Len(bytes) < 1
    \/ Len(bytes) - 1 < bytes[1]
    \/ MessageBytesTruncated(SubSeq(bytes, 2 + bytes[1], Len(bytes)))

\* C24: in Solana sign, when the bytes returned by the backend do not decode
\* into a signed transaction, the call fails with SigningError "Failed to
\* decode signed transaction" and returns no signature, regardless of the
\* signer's address (which is not looked up).
C24_UndecodableAnswerFails ==
    ( /\ op = "solana_sign"
      /\ local.stage >= 1
      /\ local.sign_result.ok
      /\ TransactionBytesTruncated(local.sign_result.val) ) =>
        /\ pc = "done"
        /\ ~result.ok
        /\ result.kind = "SigningError"
        /\ result.msg = "Failed to decode signed transaction: "
        /\ local.stage = 1
        /\ CallsTo("account_address") = {}

\* the backend answered with one signature and a message cut short
C24_Witness ==
    /\ op = "solana_sign"
    /\ pc = "done"
    /\ local.stage = 1
    /\ local.sign_result.ok
    /\ local.sign_result.val = <<1, 11, 1, 2, 1>>
    /\ ~result.ok
    /\ result.msg = "Failed to decode signed transaction: "

\* what a caller sees of a result: the value, or the error's kind and message
Outcome(r) ==
    IF r.ok THEN [ok |-> TRUE, val |-> r.val]
    ELSE [ok |-> FALSE, kind |-> r.kind, msg |-> r.msg]

Failure(kind, msg) == [ok |-> FALSE, kind |-> kind, msg |-> msg]

\* the outcome of sign as a function of the backend's answer to
\* sign_solana_transaction alone, when that answer ends the request
OutcomeOfAnswer(sign_result) ==
    IF ~sign_result.ok THEN Failure("CdpError", "")
    ELSE Failure("SigningError", "Failed to decode signed transaction: ")

\* the outcome of sign as a function of the returned transaction bytes and
\* of the answer to account_address
OutcomeOfAnswers(bytes, address_result) ==
    LET n == bytes[1]
        signatures == SubSeq(bytes, 2, 1 + n)
        account_keys == SubSeq(bytes, 4 + n, 3 + n + bytes[3 + n])
    IN  IF ~address_result.ok THEN Failure("CdpError", "")
        ELSE IF address_result.val.variant # "Solana"
        THEN Failure("SigningError", "CDP address is not a Solana address")
        ELSE IF address_result.val.addr \notin {"Key1", "Key2", "Key3"}
        THEN Failure("SigningError", "Invalid CDP pubkey: ")
        ELSE LET cdp_pubkey == CHOOSE k \in Pubkeys :
                                   Pubkey_to_string(k) = address_result.val.addr
             IN  IF \A i \in 1..Len(account_keys) : account_keys[i] # cdp_pubkey
                 THEN Failure("SigningError", "CDP pubkey not found in transaction signers")
                 ELSE LET first == CHOOSE i \in 1..Len(account_keys) :
                                      /\ account_keys[i] = cdp_pubkey
                                      /\ \A j \in 1..(i - 1) : account_keys[j] # cdp_pubkey
                      IN  IF first > n
                          THEN Failure("SigningError", "Signature index out of bounds")
                          ELSE [ok |-> TRUE, val |-> signatures[first]]

\* C28: the outcome of Solana sign (the signature or the error) is determined
\* only by the bytes the backend returned and the signer's address, whatever
\* message was submitted: sign never compares the returned transaction's
\* message or account keys with the message it submitted.
C28_OutcomeFromBackendOnly ==
    (op = "solana_sign" /\ pc = "done" /\ local.stage >= 1) =>
        /\ (~local.sign_result.ok \/ TransactionBytesTruncated(local.sign_result.val)) =>
              /\ local.stage = 1
              /\ Outcome(result) = OutcomeOfAnswer(local.sign_result)
        /\ (local.sign_result.ok /\ ~TransactionBytesTruncated(local.sign_result.val)) =>
              /\ local.stage = 3
              /\ Outcome(result) =
                     OutcomeOfAnswers(local.sign_result.val, local.address_result)

\* a signature was returned from a transaction whose account keys are not
\* those of the submitted message
C28_Witness ==
    /\ op = "solana_sign"
    /\ pc = "done"
    /\ local.stage = 3
    /\ result.ok
    /\ local.signed_transaction.message.account_keys
          # bincode_deserialize_message(req.message).val.account_keys
    /\ result.val = local.signed_transaction.signatures[
                        position(local.signed_transaction.message.account_keys,
                                 Pubkey_from_str(local.address_result.val.addr).val)]

\* the request is a finished Solana sign whose address lookup returned an
\* address that is not Solana-typed
SolanaSignAddressNotSolana ==
    /\ pc = "done"
    /\ op = "solana_sign"
    /\ local.stage = 3
    /\ local.address_result.ok
    /\ local.address_result.val.variant # "Solana"

\* C12 as stated: when the signer's address is not Solana-typed, sign is
\* rejected with SigningError "CDP address is not a Solana address" and no
\* sign_solana_transaction call has been issued for the request.
C12_RejectedBeforeRemoteCall ==
    SolanaSignAddressNotSolana =>
        /\ ~result.ok
        /\ result.kind = "SigningError"
        /\ result.msg = "CDP address is not a Solana address"
        /\ \A i \in 1..Len(calls) : calls[i].fn # "sign_solana_transaction"

\* C12 as amended: when the signer's address is not Solana-typed, sign is
\* rejected with SigningError "CDP address is not a Solana address" and returns
\* no signature; the address was looked up after the one sign_solana_transaction
\* call of the request had returned bytes that decoded, and no call follows.
C12_RejectedAfterRemoteCall ==
    SolanaSignAddressNotSolana =>
        /\ ~result.ok
        /\ result.kind = "SigningError"
        /\ result.msg = "CDP address is not a Solana address"
        /\ Len(calls) = 2
        /\ calls[1].fn = "sign_solana_transaction"
        /\ calls[2].fn = "account_address"
        /\ local.sign_result.ok
        /\ Solana_sign_decode(local.sign_result.val) = Ok(local.signed_transaction)

\* an EVM-typed address refuses a request whose signed transaction was there
C12_Witness ==
    /\ SolanaSignAddressNotSolana
    /\ local.address_result.val.variant = "Evm"
    /\ Len(local.signed_transaction.signatures) > 0
    /\ calls[1].fn = "sign_solana_transaction"
    /\ result.msg = "CDP address is not a Solana address"

\* C20: Solana sign_transaction forwards the caller's encoded transaction
\* string unchanged to sign_solana_transaction exactly once and returns
\* SignTransactionResponse::Solana holding exactly the bytes the backend
\* returned; it makes no address lookup and decodes nothing (bytes that are no
\* transaction are returned as they are).
C20_SignTransactionForwards ==
    (op = "solana_sign_transaction" /\ req.transaction.variant = "Solana") =>
        /\ calls = <<[fn |-> "sign_solana_transaction", arg |-> req.transaction.transaction]>>
        /\ (pc = "done" /\ local.sign_result.ok) =>
              /\ result.ok
              /\ result.val.variant = "Solana"
              /\ result.val.signature = local.sign_result.val

\* the backend returned bytes that are no transaction; they come back as is
C20_Witness ==
    /\ op = "solana_sign_transaction"
    /\ pc = "done"
    /\ local.stage = 1
    /\ local.sign_result.ok
    /\ ~bincode_deserialize_transaction(local.sign_result.val).ok
    /\ Len(local.sign_result.val) > 0
    /\ result.ok
    /\ result.val.signature = local.sign_result.val
    /\ Len(calls) = 1

----------------------------------------------------------------------------
(* Properties of the EVM signer *)

\* the request is an EVM sign_transaction whose remote call returned bytes
EvmSignTransactionReturned ==
    /\ pc = "done"
    /\ op = "evm_sign_transaction"
    /\ local.stage = 1
    /\ local.sign_result.ok

\* the request is an EVM sign_data whose remote call returned bytes
EvmSignDataReturned ==
    /\ pc = "done"
    /\ op = "evm_sign_data"
    /\ local.stage = 1
    /\ local.sign_result.ok

\* the bytes submitted to the backend were built as an EIP-1559 transaction
EvmSubmittedEip1559 == calls[1].arg[1] = Eip1559TxType

\* the backend's bytes decoded as the type of the submitted bytes
EvmDecodedAsSubmitted ==
    IF EvmSubmittedEip1559
    THEN Signed_TxEip1559_eip2718_decode(local.sign_result.val)
    ELSE Signed_TxLegacy_eip2718_decode(local.sign_result.val)

\* the recovery id of the decoded signature (byte 64 of its 65 bytes)
EvmDecodedRecoveryId == as_bytes(EvmDecodedAsSubmitted.val.signature)[65]

\* C7: in sign_transaction a decoded recovery id of 27 / 28 of an EIP-1559
\* transaction becomes 0 / 1 in the response; the recovery id of a legacy
\* transaction is passed through unchanged.
C7_RecoveryIdNormalized ==
    (EvmSignTransactionReturned /\ result.ok) =>
        IF EvmSubmittedEip1559
        THEN /\ EvmDecodedRecoveryId = 27 => result.val.signature.v = 0
             /\ EvmDecodedRecoveryId = 28 => result.val.signature.v = 1
        ELSE result.val.signature.v = EvmDecodedRecoveryId

\* an EIP-1559 response whose decoded recovery id 28 was normalized to 1
C7_Witness ==
    /\ EvmSignTransactionReturned
    /\ result.ok
    /\ EvmSubmittedEip1559
    /\ EvmDecodedRecoveryId = 28
    /\ result.val.signature.v = 1

\* C8 as stated: v is 0/1 for EIP-1559, 27/28 for legacy, and 27/28 for every
\* sign_data response, whatever bytes the backend returned.
C8_RecoveryIdDomains ==
    /\ (EvmSignTransactionReturned /\ result.ok) =>
          IF EvmSubmittedEip1559
          THEN result.val.signature.v \in {0, 1}
          ELSE result.val.signature.v \in {27, 28}
    /\ (EvmSignDataReturned /\ result.ok) => result.val.v \in {27, 28}

\* C8 as amended: v is 0/1 for EIP-1559 and 27/28 for legacy sign_transaction;
\* the v of a sign_data response is byte 64 of the backend's signature, passed
\* through, so it is 27/28 exactly when the backend returned 27/28 there.
C8_RecoveryIdDomainsAmended ==
    /\ (EvmSignTransactionReturned /\ result.ok) =>
          IF EvmSubmittedEip1559
          THEN result.val.signature.v \in {0, 1}
          ELSE result.val.signature.v \in {27, 28}
    /\ (EvmSignDataReturned /\ result.ok) =>
          /\ result.val.v = local.sign_result.val[65]
          /\ result.val.v \in {27, 28} <=> local.sign_result.val[65] \in {27, 28}

\* a sign_data response whose v is the 27 the backend returned as byte 64
C8_Witness ==
    /\ EvmSignDataReturned
    /\ result.ok
    /\ local.sign_result.val[65] = 27
    /\ result.val.v = 27

\* C9: sign_transaction decodes the backend's bytes as the type it built the
\* submitted bytes for; bytes that do not decode as that type give a
\* SigningError carrying the decode message and no response, also when they
\* would decode as the other type.
C9_DecodedAsSubmittedType ==
    EvmSignTransactionReturned =>
        /\ Len(calls) = 1
        /\ EvmSubmittedEip1559 <=> is_eip1559(req.transaction)
        /\ calls[1].arg = IF EvmSubmittedEip1559
                          THEN TxEip1559_encoded_for_signing(req.transaction)
                          ELSE TxLegacy_encoded_for_signing(req.transaction)
        /\ ~EvmDecodedAsSubmitted.ok =>
              /\ ~result.ok
              /\ result.kind = "SigningError"
              /\ result.msg = "Failed to decode signed transaction: "
              /\ result.detail = EvmDecodedAsSubmitted.msg
        /\ result.ok =>
              /\ EvmDecodedAsSubmitted.ok
              /\ result.val.hash = tx_hash(EvmDecodedAsSubmitted.val)

\* a legacy request answered with bytes that decode as EIP-1559 only
C9_Witness ==
    /\ EvmSignTransactionReturned
    /\ ~EvmSubmittedEip1559
    /\ Signed_TxEip1559_eip2718_decode(local.sign_result.val).ok
    /\ ~result.ok
    /\ result.kind = "SigningError"

\* C10: sign_data succeeds only on exactly 65 signature bytes; every other
\* length gives a SigningError naming the expected length 65 and the actual
\* length, and no r, s, v or sig.
C10_SignatureLength ==
    EvmSignDataReturned =>
        /\ result.ok <=> Len(local.sign_result.val) = 65
        /\ Len(local.sign_result.val) # 65 =>
              /\ result.kind = "SigningError"
              /\ result.msg = "Invalid signature length from CDP: expected 65 bytes, got "
              /\ result.detail = Len(local.sign_result.val)

\* a signature one byte too long is refused
C10_Witness ==
    /\ EvmSignDataReturned
    /\ Len(local.sign_result.val) = 66
    /\ ~result.ok
    /\ result.detail = 66

\* the two lower-case hex digits of a byte
LowerHexAlphabet == <<"0", "1", "2", "3", "4", "5", "6", "7",
                      "8", "9", "a", "b", "c", "d", "e", "f">>
LowerHexPair(byte) ==
    <<LowerHexAlphabet[(byte \div 16) + 1], LowerHexAlphabet[(byte % 16) + 1]>>

\* C21: for every 65-byte signature the backend returned, sign_data returns
\* r = lower-case hex of bytes 0..32, s = lower-case hex of bytes 32..64,
\* v = byte 64 and sig = lower-case hex of all 65 bytes without 0x prefix, so
\* that sig is r followed by s followed by the two hex digits of v.
C21_SignDataLayout ==
    (EvmSignDataReturned /\ Len(local.sign_result.val) = 65) =>
        /\ result.ok
        /\ Len(result.val.r) = 64
        /\ Len(result.val.s) = 64
        /\ \A i \in 1..32 :
              /\ SubSeq(result.val.r, 2 * i - 1, 2 * i) = LowerHexPair(local.sign_result.val[i])
              /\ SubSeq(result.val.s, 2 * i - 1, 2 * i) =
                    LowerHexPair(local.sign_result.val[32 + i])
        /\ result.val.v = local.sign_result.val[65]
        /\ Len(result.val.sig) = 130
        /\ \A i \in 1..65 :
              SubSeq(result.val.sig, 2 * i - 1, 2 * i) = LowerHexPair(local.sign_result.val[i])
        /\ result.val.sig = result.val.r \o result.val.s \o LowerHexPair(result.val.v)

\* r bytes 0xab and v = 27: r starts with "ab" and sig ends with "1b"
C21_Witness ==
    /\ EvmSignDataReturned
    /\ result.ok
    /\ local.sign_result.val[1] = 171
    /\ local.sign_result.val[65] = 27
    /\ SubSeq(result.val.r, 1, 2) = <<"a", "b">>
    /\ SubSeq(result.val.sig, 129, 130) = <<"1", "b">>

\* C14: sign_typed_data fails with SignerError::NotImplemented for every
\* request and never invokes an operation of the remote-signer capability.
C14_TypedDataNotImplemented ==
    op = "evm_sign_typed_data" =>
        /\ pc = "done"
        /\ ~result.ok
        /\ result.kind = "NotImplemented"
        /\ calls = <<>>

\* a request with a domain and a struct hash was refused
C14_Witness ==
    /\ op = "evm_sign_typed_data"
    /\ pc = "done"
    /\ req.typed_data.domain_separator = "test-domain"
    /\ req.typed_data.hash_struct_message = "test-struct"
    /\ result.kind = "NotImplemented"
    /\ calls = <<>>

\* the remote signing operation each signer operation calls
RemoteSigningCall ==
    CASE op = "evm_sign_data" -> "sign_evm_message"
      [] op = "evm_sign_transaction" -> "sign_evm_transaction"
      [] op = "solana_sign" -> "sign_solana_transaction"
      [] op = "solana_sign_transaction" -> "sign_solana_transaction"

\* a signer operation is running and its remote signing call has failed
RemoteSigningFailed ==
    /\ op \in {"evm_sign_data", "evm_sign_transaction", "solana_sign",
               "solana_sign_transaction"}
    /\ local.stage >= 1
    /\ ~local.sign_result.ok

\* C13: when the remote signing call fails, EVM sign_data, EVM
\* sign_transaction, Solana sign and Solana sign_transaction stop at once and
\* return SignerError::CdpError wrapping the backend's error unchanged, no
\* signature or response, and the remote signing operation has been invoked
\* exactly once for the request, with no other call after it.
C13_RemoteFailureAborts ==
    RemoteSigningFailed =>
        /\ pc = "done"
        /\ ~result.ok
        /\ result.kind = "CdpError"
        /\ result.detail = local.sign_result.err
        /\ Len(calls) = 1
        /\ calls[1].fn = RemoteSigningCall

\* Solana sign stopped on the backend's error, before any address lookup
C13_Witness ==
    /\ RemoteSigningFailed
    /\ op = "solana_sign"
    /\ result.kind = "CdpError"
    /\ result.detail = [kind |-> "SigningError", msg |-> "Mock signing error"]
    /\ Len(calls) = 1

----------------------------------------------------------------------------
(* Properties of the Optimism price handler *)

OptimismRunning == op = "optimism_handle_price_params"
OptimismDone == pc = "done" /\ op = "optimism_handle_price_params"
OptimismSucceeded == OptimismDone /\ result.ok

\* the reads whose call the provider answered with an error
FailedReads ==
    { i \in ReadIndices : local.reads[i].status = "ready" /\ ~local.reads[i].answer.ok }

\* the fee with every operation saturating
SaturatingFee(fee_data, tx) ==
    saturating_mul(
        calculate_compressed_tx_size(tx),
        saturating_add(
            saturating_mul(saturating_mul(16, fee_data.base_fee_scalar),
                           fee_data.l1_base_fee),
            saturating_mul(fee_data.blob_base_fee_scalar, fee_data.blob_base_fee)))

\* C3: calculate_fee is compressed_size * (16 * base_fee_scalar * l1_base_fee
\* + blob_base_fee_scalar * blob_base_fee) with every operation saturating:
\* an overflowing product or sum clamps to the maximum and never wraps.
C3_FeeSaturates ==
    OptimismSucceeded =>
        result.val.extra_fee = Some(SaturatingFee(local.fee_data, req.tx))

C5_FetchAllOrNothing ==
    OptimismRunning =>
        /\ pc # "done" => FailedReads = {}
        /\ \A i \in FailedReads :
              /\ ~result.ok
              /\ result.kind = "UnexpectedError"
              /\ result.detail =
                    <<"Display", "UnexpectedError", local.reads[i].answer.err>>
              /\ "fee_data" \notin DOMAIN local
        /\ (pc = "done" /\ result.ok) =>
              \A i \in ReadIndices :
                  local.reads[i].status = "ready" /\ local.reads[i].answer.ok

\* a read failed after four others had succeeded and one was still in flight
C5_Witness ==
    /\ OptimismDone
    /\ ~result.ok
    /\ Cardinality(FailedReads) = 1
    /\ Cardinality({i \in ReadIndices : local.reads[i].status = "ready"}) = 5
    /\ Cardinality({i \in ReadIndices : local.reads[i].status = "inflight"}) = 1

\* every call issued is a read of the oracle by one selector, no two alike
OracleCallsWellFormed ==
    /\ \A i \in 1..Len(calls) :
          /\ calls[i].fn = "call_contract"
          /\ calls[i].to = OPTIMISM_GAS_PRICE_ORACLE_ADDRESS
          /\ Len(calls[i].input) = 4
          /\ calls[i].input \in
                {FN_SELECTOR_L1_BASE_FEE, FN_SELECTOR_BASE_FEE, FN_SELECTOR_DECIMALS,
                 FN_SELECTOR_BLOB_BASE_FEE, FN_SELECTOR_BASE_FEE_SCALAR,
                 FN_SELECTOR_BLOB_BASE_FEE_SCALAR}
    /\ \A i, j \in 1..Len(calls) : i # j => calls[i].input # calls[j].input

\* the value the provider returned to the call made with this selector
ReturnedFor(selector) ==
    LET i == CHOOSE k \in 1..Len(calls) : calls[k].input = selector
    IN  from_be_slice(local.reads[i].answer.val)

\* each field of the fee data holds the value returned for its own selector
FeeDataBySelector ==
    /\ local.fee_data.l1_base_fee = ReturnedFor(FN_SELECTOR_L1_BASE_FEE)
    /\ local.fee_data.base_fee = ReturnedFor(FN_SELECTOR_BASE_FEE)
    /\ local.fee_data.decimals = ReturnedFor(FN_SELECTOR_DECIMALS)
    /\ local.fee_data.blob_base_fee = ReturnedFor(FN_SELECTOR_BLOB_BASE_FEE)
    /\ local.fee_data.base_fee_scalar = ReturnedFor(FN_SELECTOR_BASE_FEE_SCALAR)
    /\ local.fee_data.blob_base_fee_scalar = ReturnedFor(FN_SELECTOR_BLOB_BASE_FEE_SCALAR)

\* C6 as stated: a finished fetch_fee_data has issued exactly six reads, one
\* per distinct selector, all to the oracle address; when all six succeed each
\* field holds the value returned for its own selector.
C6_SixIndependentReads ==
    OptimismDone =>
        /\ Len(calls) = 6
        /\ OracleCallsWellFormed
        /\ result.ok => FeeDataBySelector

\* C6 as amended: fetch_fee_data issues at most six reads, one per distinct
\* selector, all to the oracle address, each issued without any answer of an
\* earlier read; exactly six have been issued when it succeeds, and fewer only
\* when it failed; when all six succeed each field holds the value returned
\* for its own selector, whatever the order of the answers.
C6_SixIndependentReadsAmended ==
    OptimismRunning =>
        /\ Len(calls) <= 6
        /\ OracleCallsWellFormed
        /\ \A i \in ReadIndices : local.reads[i].status # "unpolled" <=> i <= Len(calls)
        /\ (pc = "done" /\ Len(calls) < 6) => (~result.ok /\ FailedReads # {})
        /\ (pc = "done" /\ result.ok) => (Len(calls) = 6 /\ FeeDataBySelector)

\* all six reads succeeded with values that tell the fields apart
C6_Witness ==
    /\ OptimismSucceeded
    /\ Len(calls) = 6
    /\ local.fee_data.l1_base_fee = U256_MAX
    /\ local.fee_data.base_fee = 2
    /\ local.fee_data.decimals = 6
    /\ local.fee_data.blob_base_fee = 0
    /\ local.fee_data.base_fee_scalar = 3
    /\ local.fee_data.blob_base_fee_scalar = 1

RECURSIVE Pow256(_)
Pow256(n) == IF n = 0 THEN 1 ELSE 256 * Pow256(n - 1)

\* the integer whose big-endian digits in base 256 are the bytes: the first
\* byte weighs most
RECURSIVE BigEndianValue(_)
BigEndianValue(bytes) ==
    IF Len(bytes) = 0 THEN 0
    ELSE bytes[1] * Pow256(Len(bytes) - 1) + BigEndianValue(Tail(bytes))

\* the reads of the running Optimism request that the oracle answered with
\* bytes no wider than a U256
OracleAnsweredReads ==
    IF op # "optimism_handle_price_params" THEN {}
    ELSE { i \in ReadIndices :
             /\ local.reads[i].status = "ready"
             /\ local.reads[i].answer.ok
             /\ Len(local.reads[i].answer.val) <= UBytes }

\* C26: each oracle read turns the raw return bytes into an unsigned integer
\* by big-endian interpretation with left zero-padding and nothing else: for
\* every return value no wider than a U256 the result is the big-endian
\* integer of those bytes, and an empty return gives 0.
C26_ReadIsBigEndian ==
    \A i \in OracleAnsweredReads :
        LET bytes == local.reads[i].answer.val
            out == local.reads[i].out
        IN  /\ out.ok
            /\ out.val = BigEndianValue(bytes)
            /\ out.val < U256_MODULUS
            /\ bytes = <<>> => out.val = 0
            /\ out.val = BigEndianValue(
                   [k \in 1..UBytes |->
                       IF k <= UBytes - Len(bytes) THEN 0
                       ELSE bytes[k - (UBytes - Len(bytes))]])

\* one read answered with the bytes 00 02 and gave 2, another answered with
\* no bytes and gave 0
C26_Witness ==
    /\ \E i \in OracleAnsweredReads :
          local.reads[i].answer.val = <<0, 2>> /\ local.reads[i].out.val = 2
    /\ \E i \in OracleAnsweredReads :
          local.reads[i].answer.val = <<>> /\ local.reads[i].out.val = 0

\* the Optimism request finished with adjusted params
OptimismAdjusted ==
    /\ op = "optimism_handle_price_params"
    /\ pc = "done"
    /\ local.stage = 2

\* the params that differ from p in extra_fee and total_cost at most
SurchargeVariants(p) ==
    { [p EXCEPT !.extra_fee = e, !.total_cost = t] :
        e \in {None, Some(0), Some(42), Some(U256_MODULUS - 1)},
        t \in {0, 1048, U256_MODULUS - 1} }

\* C27: the extra_fee and total_cost returned by the Optimism
\* handle_price_params do not depend on the extra_fee or total_cost that came
\* in: calls that differ only in those two input fields (same transaction,
\* same oracle values) return identical PriceParams, and applying the handler
\* again to its own output changes nothing.
C27_SurchargeOverwritten ==
    OptimismAdjusted =>
        /\ result.ok
        /\ \A p \in SurchargeVariants(req.original_params) :
              Optimism_handle_price_params(req.tx, p, local.fee_data) = result
        /\ Optimism_handle_price_params(req.tx, result.val, local.fee_data) = result

\* a quote that came in with a surcharge of 42 left with a positive L1 data
\* cost that is not 42
C27_Witness ==
    /\ OptimismAdjusted
    /\ req.original_params.extra_fee = Some(42)
    /\ req.original_params.total_cost = 1048
    /\ result.ok
    /\ result.val.extra_fee.v > 0
    /\ result.val.extra_fee.v # 42
    /\ result.val.total_cost # 1048

----------------------------------------------------------------------------
(* Properties of CdpService *)

HexChars == {"0", "1", "2", "3", "4", "5", "6", "7", "8", "9",
             "a", "b", "c", "d", "e", "f", "A", "B", "C", "D", "E", "F"}

ToLower(c) ==
    CASE c = "A" -> "a" [] c = "B" -> "b" [] c = "C" -> "c"
      [] c = "D" -> "d" [] c = "E" -> "e" [] c = "F" -> "f"
      [] OTHER -> c

CdpAccountAddressDone == pc = "done" /\ op = "cdp_account_address"

\* the account string begins with the two characters 0x
AccountHasPrefix ==
    /\ Len(req.self.config.account_address) >= 2
    /\ req.self.config.account_address[1] = "0"
    /\ req.self.config.account_address[2] = "x"

\* the account string is 0x followed by exactly 40 hex digits
AccountIsEvmHex ==
    /\ AccountHasPrefix
    /\ Len(req.self.config.account_address) = 42
    /\ \A i \in 3..42 : req.self.config.account_address[i] \in HexChars

\* C15: address_from_string maps 0x followed by 40 hex digits of either case
\* to Address::Evm holding the 20 bytes those digits encode, and every string
\* that does not begin with 0x to Address::Solana holding that string.
C15_AddressFromString ==
    CdpAccountAddressDone =>
        /\ AccountIsEvmHex =>
              /\ result.ok
              /\ result.val.variant = "Evm"
              /\ Len(result.val.addr) = 20
              /\ hex_encode(result.val.addr) =
                    [i \in 1..40 |-> ToLower(req.self.config.account_address[i + 2])]
        /\ ~AccountHasPrefix =>
              result = Ok(Address_Solana(req.self.config.account_address))

\* a mixed-case EVM address decoded to its bytes (0x74 0x2d 0x35 0xCc ...)
C15_Witness ==
    /\ CdpAccountAddressDone
    /\ AccountIsEvmHex
    /\ result.ok
    /\ result.val.addr[1] = 116
    /\ result.val.addr[4] = 204

\* C16: address_from_string fails with a ConfigError and returns no Address
\* for every input that begins with 0x and whose remainder is not valid hex or
\* decodes to a byte count other than 20, the bare "0x" included.
C16_AddressFromStringRejects ==
    (CdpAccountAddressDone /\ AccountHasPrefix /\ ~AccountIsEvmHex) =>
        /\ ~result.ok
        /\ result.err.kind = "ConfigError"

\* the bare string "0x" is refused: it decodes to 0 bytes
C16_Witness ==
    /\ CdpAccountAddressDone
    /\ req.self.config.account_address = <<"0", "x">>
    /\ ~result.ok
    /\ result.err.kind = "ConfigError"
    /\ result.err.detail = 0

CdpSignEvmOps == {"cdp_sign_evm_message", "cdp_sign_evm_transaction"}
CdpSignSolanaOps == {"cdp_sign_solana_message", "cdp_sign_solana_transaction"}

\* the running operation is a signing operation of the chain the configured
\* account does not belong to
CdpAddressKindMismatch ==
    \/ op \in CdpSignEvmOps /\ ~AccountHasPrefix
    \/ op \in CdpSignSolanaOps /\ AccountHasPrefix

\* C11: each of the four CdpService signing operations, when the configured
\* account is of the other chain's kind, returns a ConfigError and sends no
\* request to the backend.
C11_AddressKindGuard ==
    CdpAddressKindMismatch =>
        /\ pc = "done"
        /\ ~result.ok
        /\ result.err.kind = "ConfigError"
        /\ calls = <<>>

\* sign_solana_transaction on an account configured with an EVM address
C11_Witness ==
    /\ op = "cdp_sign_solana_transaction"
    /\ AccountIsEvmHex
    /\ pc = "done"
    /\ result.err.kind = "ConfigError"
    /\ calls = <<>>

\* the message each signing operation puts in front of a failed send
FailedToSign ==
    [o \in CdpSignEvmOps \cup CdpSignSolanaOps |->
        CASE o = "cdp_sign_evm_message" -> "Failed to sign message: "
          [] o = "cdp_sign_evm_transaction" -> "Failed to sign transaction: "
          [] o = "cdp_sign_solana_message" -> "Failed to sign Solana message: "
          [] o = "cdp_sign_solana_transaction" -> "Failed to sign Solana transaction: "]

\* the running signing operation sent its request and the backend refused it
CdpBackendRefused ==
    /\ op \in CdpSignEvmOps \cup CdpSignSolanaOps
    /\ local.stage = 1
    /\ ~local.sent.ok

\* C25: for each CdpService signing operation whose address kind matches,
\* every failed backend response (HTTP 400, 401, 422 or 500) is returned as
\* SigningError with that operation's "Failed to sign ..." message; it is
\* never reported as HttpError or AuthenticationFailed and never yields
\* signature bytes.
C25_BackendFailureIsSigningError ==
    CdpBackendRefused =>
        /\ local.sent.err.status \in {400, 401, 422, 500}
        /\ pc = "done"
        /\ ~result.ok
        /\ result.err.kind = "SigningError"
        /\ result.err.kind \notin {"HttpError", "AuthenticationFailed"}
        /\ result.err.msg = FailedToSign[op]
        /\ result.err.detail = local.sent.err
        /\ Len(calls) = 1

\* sign_evm_message refused with 401 unauthorized
C25_Witness ==
    /\ op = "cdp_sign_evm_message"
    /\ CdpBackendRefused
    /\ local.sent.err.status = 401
    /\ result.err.kind = "SigningError"
    /\ result.err.msg = "Failed to sign message: "

\* the running operation is one of CdpService on its configured account
CdpServiceOps == {"cdp_account_address"} \cup CdpSignEvmOps \cup CdpSignSolanaOps

\* the running signing operation returned a ConfigError without sending
CdpRejectedLocally ==
    /\ pc = "done"
    /\ local.stage = 0
    /\ calls = <<>>
    /\ ~result.ok
    /\ result.err.kind = "ConfigError"

\* the running signing operation sent its request with the configured account
CdpReachedBackend ==
    /\ Len(calls) = 1
    /\ calls[1].address = req.self.config.account_address
    /\ pc = "done" => local.stage = 1

\* C30: the CdpService address-kind guard depends only on the "0x" prefix:
\* for every configured account string exactly one of is_evm_address and
\* is_solana_address holds, and sign_evm_message / sign_evm_transaction are
\* rejected locally if and only if the string does not start with "0x", so a
\* 0x-prefixed string for which account_address fails with ConfigError (bad
\* hex or wrong length) still passes the guard and reaches the backend.
C30_GuardIsPrefixOnly ==
    /\ op \in CdpServiceOps =>
          /\ is_evm_address(req.self) # is_solana_address(req.self)
          /\ is_evm_address(req.self) <=> AccountHasPrefix
    /\ op \in CdpSignEvmOps =>
          /\ CdpRejectedLocally <=> ~AccountHasPrefix
          /\ CdpReachedBackend <=> AccountHasPrefix
          /\ (AccountHasPrefix /\ ~AccountIsEvmHex) =>
                /\ ~address_from_string(req.self.config.account_address).ok
                /\ address_from_string(req.self.config.account_address).err.kind
                      = "ConfigError"
                /\ CdpReachedBackend

\* sign_evm_message on an account of 0x and 39 digits: account_address would
\* fail, the request was sent and the backend's signature returned
C30_Witness ==
    /\ op = "cdp_sign_evm_message"
    /\ AccountHasPrefix
    /\ Len(req.self.config.account_address) = 41
    /\ ~address_from_string(req.self.config.account_address).ok
    /\ pc = "done"
    /\ local.stage = 1
    /\ Len(calls) = 1
    /\ result.ok

----------------------------------------------------------------------------
(* Properties of calculate_compressed_tx_size *)

CompressedSizeDone == pc = "done" /\ op = "calculate_compressed_tx_size"

\* the digits of the payload: the data without its 0x prefix, if it has one
PayloadDigits ==
    IF ~req.tx.data.some THEN <<>>
    ELSE IF Len(req.tx.data.v) >= 2 /\ req.tx.data.v[1] = "0" /\ req.tx.data.v[2] = "x"
    THEN SubSeq(req.tx.data.v, 3, Len(req.tx.data.v))
    ELSE req.tx.data.v

\* the payload is valid hex: an even number of hex digits
PayloadIsHex ==
    /\ req.tx.data.some
    /\ Len(PayloadDigits) % 2 = 0
    /\ \A i \in 1..Len(PayloadDigits) : PayloadDigits[i] \in HexChars

PayloadBytes == hex_decode(PayloadDigits).val
PayloadZeros == Cardinality({i \in 1..Len(PayloadBytes) : PayloadBytes[i] = 0})
PayloadNonZeros == Cardinality({i \in 1..Len(PayloadBytes) : PayloadBytes[i] # 0})

\* the transaction with one more non-zero byte at the end of its payload
WithOneMoreByte(tx, byte) ==
    [tx EXCEPT !.data = Some((IF tx.data.some THEN tx.data.v ELSE <<>>)
                             \o hex_encode(<<byte>>))]

\* C17: for every data payload that is valid hex, calculate_compressed_tx_size
\* is floor((4 * z + 16 * n) / 16), z and n being the numbers of zero and of
\* non-zero bytes of the decoded payload; an absent or empty payload gives 0;
\* one more non-zero byte never makes the size smaller.
C17_CompressedSize ==
    CompressedSizeDone =>
        /\ PayloadIsHex => result = (4 * PayloadZeros + 16 * PayloadNonZeros) \div 16
        /\ (~req.tx.data.some \/ req.tx.data.v = <<>>) => result = 0
        /\ (PayloadIsHex \/ ~req.tx.data.some) =>
              \A byte \in {1, 255} :
                  calculate_compressed_tx_size(WithOneMoreByte(req.tx, byte)) >= result

\* the payload 0x00001234: two zero and two non-zero bytes, 40 / 16 gives 2
C17_Witness ==
    /\ CompressedSizeDone
    /\ req.tx.data = Some(<<"0", "x", "0", "0", "0", "0", "1", "2", "3", "4">>)
    /\ PayloadZeros = 2
    /\ PayloadNonZeros = 2
    /\ result = 2

\* the number of leading repetitions of "0x" in str
Leading0x(str) ==
    CHOOSE k \in 0..(Len(str) \div 2) :
        /\ \A j \in 1..k : str[2 * j - 1] = "0" /\ str[2 * j] = "x"
        /\ ~( /\ Len(str) >= 2 * k + 2
              /\ str[2 * k + 1] = "0"
              /\ str[2 * k + 2] = "x" )

\* the payload is present and, once its leading "0x" are removed, is no valid
\* hex: an odd number of digits, or a character that is no hex digit
PayloadInvalidHex ==
    /\ req.tx.data.some
    /\ LET data == req.tx.data.v
           digits == SubSeq(data, 2 * Leading0x(data) + 1, Len(data))
       IN  \/ Len(digits) % 2 = 1
           \/ \E i \in 1..Len(digits) : digits[i] \notin HexChars

\* C29: calculate_compressed_tx_size never fails: a data payload that is not
\* valid hex after removing leading "0x" (odd number of digits, non-hex
\* characters) is treated exactly like an absent payload and gives size 0, so
\* calculate_fee returns 0 and handle_price_params succeeds with
\* extra_fee = Some(0) for such a transaction.
C29_InvalidHexIsNoPayload ==
    /\ CompressedSizeDone =>
          /\ result \in 0..(U256_MODULUS - 1)
          /\ PayloadInvalidHex =>
                /\ result = 0
                /\ result = calculate_compressed_tx_size([req.tx EXCEPT !.data = None])
    /\ (OptimismAdjusted /\ PayloadInvalidHex) =>
          /\ calculate_fee(local.fee_data, req.tx) = 0
          /\ result.ok
          /\ result.val.extra_fee = Some(0)
          /\ result = Optimism_handle_price_params([req.tx EXCEPT !.data = None],
                                                   req.original_params, local.fee_data)

\* the handler adjusted the quote of a transaction whose payload holds
\* characters that are no hex digits
C29_Witness ==
    /\ OptimismAdjusted
    /\ req.tx.data = Some(<<"0", "x", "g", "h", "1", "2">>)
    /\ local.fee_data.l1_base_fee > 0
    /\ result.ok
    /\ result.val.extra_fee = Some(0)

----------------------------------------------------------------------------
(* Properties of the price-params handlers *)

HandlerOps == {"optimism_handle_price_params", "mock_handle_price_params"}

\* C18: a price-params handler only adds a surcharge: the PriceParams it
\* returns have the gas_price, max_fee_per_gas, max_priority_fee_per_gas and
\* is_min_bumped that came in, so a legacy quote stays legacy and an EIP-1559
\* quote stays EIP-1559; only extra_fee and total_cost may differ; and the
\* transaction request is the same from the call to the return.
C18_HandlerOnlyAddsSurcharge ==
    /\ [](( pc = "done" /\ op \in HandlerOps /\ result.ok ) =>
            /\ result.val.gas_price = req.original_params.gas_price
            /\ result.val.max_fee_per_gas = req.original_params.max_fee_per_gas
            /\ result.val.max_priority_fee_per_gas =
                  req.original_params.max_priority_fee_per_gas
            /\ result.val.is_min_bumped = req.original_params.is_min_bumped
            /\ result.val.max_fee_per_gas.some <=> req.original_params.max_fee_per_gas.some
            /\ [result.val EXCEPT !.extra_fee = None, !.total_cost = 0] =
                  [req.original_params EXCEPT !.extra_fee = None, !.total_cost = 0])
    /\ [][( op \in HandlerOps /\ pc # "done" ) => req' = req]_vars

\* the Optimism handler gave a legacy quote a surcharge and a new total cost
\* and left its gas price alone
C18_Witness ==
    /\ pc = "done"
    /\ op = "optimism_handle_price_params"
    /\ result.ok
    /\ ~req.original_params.max_fee_per_gas.some
    /\ result.val.gas_price = Some(2)
    /\ result.val.extra_fee # req.original_params.extra_fee
    /\ result.val.total_cost # req.original_params.total_cost

\* C19: for_network returns Some(Optimism handler) exactly when
\* network.is_optimism() holds and None for every other network, makes no
\* provider call, and gives the same variant for the same network whatever the
\* provider.
C19_ForNetworkSelection ==
    (pc = "done" /\ op = "for_network") =>
        /\ result.some <=> is_optimism(req.network)
        /\ result.some => (result.v.variant = "Optimism" /\ result.v.provider = req.provider)
        /\ calls = <<>>
        /\ \A provider \in EvmProviders :
              for_network(req.network, provider).some = result.some

\* a tagged network that is not of the Optimism family gets no handler
C19_Witness ==
    /\ pc = "done"
    /\ op = "for_network"
    /\ Len(req.network.tags) > 0
    /\ ~is_optimism(req.network)
    /\ result = None
    /\ calls = <<>>

====
